---- MODULE Spec2Model ----
(***************************************************************************)
(* A model of the Crestron Home REST client (src/src/crestronClient.ts):   *)
(* the session kept by login(), the discovery pass getDevices() and the    *)
(* command operations, as they interleave on the Node.js event loop.       *)
(* A step of the model is the code that runs between two awaits.           *)
(***************************************************************************)
EXTENDS Integers, Sequences, FiniteSets, TLC

(***************************************************************************)
(* Bounds of the model.                                                    *)
(***************************************************************************)
\* The clock is observed on a grid of instants around the multiples of the
\* session lifetime, up to MaxPeriods lifetimes after construction.
MaxPeriods == 1
\* The longest list the /devices endpoint answers with.
MaxDevices == 2

(***************************************************************************)
(* Program constants.                                                      *)
(***************************************************************************)
\* private NINE_MINUTES_MILLIS = 9 * 60 * 1000
NINE_MINUTES_MILLIS == 9 * 60 * 1000
\* lastLogin starts 11 minutes before construction
ELEVEN_MINUTES_MILLIS == 11 * 60 * 1000

\* An optional value of the program: undefined, or a value.
Undefined == <<>>
Some(v) == <<v>>
\* o?.f : undefined when o is, else the field f of the record o holds.
Opt(o, f) == IF o = Undefined THEN Undefined ELSE Some(o[1][f])
\* a || b on optional strings (undefined and '' are falsy).
OrElse(a, b) == IF a # Undefined /\ a # Some("") THEN a ELSE b
\* An optional string inside a template literal.
Str(o) == IF o = Undefined THEN "undefined" ELSE o[1]

Min(S) == CHOOSE x \in S : \A y \in S : x <= y

(***************************************************************************)
(* The callers: the platform's refresh timer, which runs getDevices, and   *)
(* an accessory handler, which runs one command operation at a time.       *)
(***************************************************************************)
Procs == {"poll", "cmd"}

\* The instants at which the clock is read (milliseconds since construction).
Instants ==
    {t \in {k * NINE_MINUTES_MILLIS + j : k \in 0..MaxPeriods, j \in {-1, 0, 1}} : t >= 0}

\* The auth keys the controller hands out.
AuthKeys == {"key1", "key2"}

\* The endpoints read by a discovery pass, and the five without a .catch().
Endpoints ==
    {"rooms", "scenes", "devices", "shades", "thermostats", "doorlocks", "securitydevices"}
RequiredEndpoints == {"rooms", "scenes", "devices", "shades", "thermostats"}

\* The command operations of the client; only setSecuritySystemState rethrows.
CommandOps ==
    {"setLightsState", "setShadesState", "recallScene", "setThermostatSetPoint",
     "setThermostatMode", "setThermostatFanMode", "lockDoor", "unlockDoor",
     "setSecuritySystemState"}
RethrowingOps == {"setSecuritySystemState"}

(***************************************************************************)
(* The records the controller answers with.                                *)
(***************************************************************************)
LivingRoom == [id |-> 1, name |-> "Living Room"]

Scene1 ==
    [id |-> 101, name |-> "Scene 1", type |-> "Lighting", roomId |-> 1, status |-> TRUE]

Shade1 == [id |-> 1, position |-> 40]

Thermostat1 ==
    [id |-> 1,
     currentTemperature |-> 720,
     currentMode |-> "Cool",
     currentFanMode |-> "Auto",
     currentSetPoint |-> <<[type |-> "Cool", temperature |-> 700]>>,
     temperatureUnits |-> "DeciFahrenheit",
     schedulerState |-> "run",
     availableFanModes |-> {"Auto", "On"},
     availableSystemModes |-> {"Off", "Cool", "Heat"},
     connectionStatus |-> "online"]

DoorLock1 ==
    [id |-> 1, name |-> "Front Door", status |-> "locked", type |-> "lock",
     connectionStatus |-> "online", roomId |-> 1]

SecurityDevice1 ==
    [id |-> 1,
     currentState |-> "ArmStay",
     availableStates |-> {"ArmAway", "ArmStay", "Disarmed"},
     connectionStatus |-> "online"]

\* Further records, for the controllers of the aggregation specification: a
\* scene, a thermostat and a door lock with the id of the second record of
\* /devices; the room of the door lock is not one /rooms knows, and the
\* thermostat reports an empty connection status.
Scene2 ==
    [id |-> 102, name |-> "Scene 2", type |-> "Media", roomId |-> 1, status |-> FALSE]

Thermostat2 ==
    [id |-> 2,
     currentTemperature |-> 685,
     currentMode |-> "Heat",
     currentFanMode |-> "On",
     currentSetPoint |-> <<[type |-> "Heat", temperature |-> 680]>>,
     temperatureUnits |-> "DeciFahrenheit",
     schedulerState |-> "hold",
     availableFanModes |-> {"Auto", "On"},
     availableSystemModes |-> {"Off", "Heat"},
     connectionStatus |-> ""]

DoorLock2 ==
    [id |-> 2, name |-> "Back Door", status |-> "unlocked", type |-> "lock",
     connectionStatus |-> "offline", roomId |-> 2]

\* The declared <<type, subType>> of a record of /devices; '' is a missing field.
DeclaredTypes ==
    {<<"", "">>, <<"thermostat", "">>, <<"lock", "">>, <<"DoorLock", "">>,
     <<"security Device", "">>, <<"light", "Dimmer">>, <<"Shade", "">>}

\* The record at position i of /devices: ids follow the position, so the record
\* with id 1 is the one the extension collections know, and its room is the one
\* /rooms knows. A missing level is 0 and a missing status false, which is what
\* `device.level || 0` and `device.status || false` make of them.
RawDevice(i, ts, lv) ==
    [id |-> i, name |-> "Device", type |-> ts[1], subType |-> ts[2], roomId |-> i,
     level |-> lv, status |-> lv > 0]

RECURSIVE DeviceListsOfLen(_)
DeviceListsOfLen(n) ==
    IF n = 0 THEN {<<>>}
    ELSE {Append(l, RawDevice(n, ts, IF n = 1 THEN 50 ELSE 0)) :
              l \in DeviceListsOfLen(n - 1), ts \in DeclaredTypes}

DeviceLists == UNION {DeviceListsOfLen(n) : n \in 0..MaxDevices}

\* The device list of a controller with one dimmer.
DefaultDevices == <<RawDevice(1, <<"light", "Dimmer">>, 50)>>

\* What the controller holds: the seven collections, and the endpoints that
\* fail when read (not implemented by the firmware, or unreachable).
HubWith(devs, down) ==
    [rooms |-> <<LivingRoom>>, scenes |-> <<Scene1>>, devices |-> devs,
     shades |-> <<Shade1>>, thermostats |-> <<Thermostat1>>,
     doorLocks |-> <<DoorLock1>>, securityDevices |-> <<SecurityDevice1>>,
     down |-> down]

(***************************************************************************)
(* The aggregation of getDevices (crestronClient.ts lines 161-300).        *)
(***************************************************************************)
\* Array.prototype.find on the id: the first record with that id, if any.
Find(seq, id) ==
    LET I == {i \in 1..Len(seq) : seq[i].id = id}
    IN  IF I = {} THEN Undefined ELSE Some(seq[Min(I)])

\* this.rooms.find(r => r.id === roomId)?.name
RoomNameOf(rms, roomId) == Opt(Find(rms, roomId), "name")

\* const deviceType = device.subType || device.type
DeviceType(device) == IF device.subType # "" THEN device.subType ELSE device.type

\* The join of a client that knows the capitalized spelling only.
IsThermostatTypeExact(deviceType) == deviceType = "Thermostat"

IsThermostatType(deviceType) == deviceType = "Thermostat" \/ deviceType = "thermostat"
IsDoorLockType(deviceType) == deviceType = "DoorLock" \/ deviceType = "lock"
IsSecurityType(deviceType) == deviceType = "security Device"

\* A gate that lets a record without a type through.
IsEnabledOrUntyped(deviceType, enabled) ==
    \/ deviceType = ""
    \/ deviceType \in enabled
    \/ deviceType = "thermostat" /\ "Thermostat" \in enabled
    \/ deviceType = "security Device" /\ "SecuritySystem" \in enabled

\* const isEnabled = enabledTypes.includes(deviceType) || ...
IsEnabled(deviceType, enabled) ==
    \/ deviceType \in enabled
    \/ deviceType = "thermostat" /\ "Thermostat" \in enabled
    \/ deviceType = "security Device" /\ "SecuritySystem" \in enabled

\* The CrestronDevice built for a record of /devices (const d, lines 202-228).
DeviceOf(device, data) ==
    LET roomName == RoomNameOf(data.rooms, device.roomId)
        deviceType == DeviceType(device)
        shade == IF deviceType = "Shade" THEN Find(data.shades, device.id) ELSE Undefined
        shadePosition == IF shade = Undefined THEN 0 ELSE shade[1].position
        thermostatData ==
            IF IsThermostatType(deviceType)
            THEN Find(data.thermostats, device.id) ELSE Undefined
        doorLockData ==
            IF IsDoorLockType(deviceType)
            THEN Find(data.doorLocks, device.id) ELSE Undefined
        securityDeviceData ==
            IF IsSecurityType(deviceType)
            THEN Find(data.securityDevices, device.id) ELSE Undefined
    IN  [id |-> device.id,
         type |-> deviceType,
         subType |-> deviceType,
         name |-> Str(roomName) \o " " \o device.name,
         roomId |-> device.roomId,
         roomName |-> Str(OrElse(roomName, Some(""))),
         level |-> device.level,
         status |-> device.status,
         position |-> shadePosition,
         currentTemperature |-> Opt(thermostatData, "currentTemperature"),
         currentMode |-> Opt(thermostatData, "currentMode"),
         currentFanMode |-> Opt(thermostatData, "currentFanMode"),
         currentSetPoint |-> Opt(thermostatData, "currentSetPoint"),
         temperatureUnits |-> Opt(thermostatData, "temperatureUnits"),
         schedulerState |-> Opt(thermostatData, "schedulerState"),
         availableFanModes |-> Opt(thermostatData, "availableFanModes"),
         availableSystemModes |-> Opt(thermostatData, "availableSystemModes"),
         connectionStatus |->
             OrElse(Opt(thermostatData, "connectionStatus"),
                    Opt(doorLockData, "connectionStatus")),
         lockStatus |-> Opt(doorLockData, "status"),
         lockType |-> Opt(doorLockData, "type"),
         securityCurrentState |-> Opt(securityDeviceData, "currentState"),
         securityAvailableStates |-> Opt(securityDeviceData, "availableStates")]

\* The CrestronDevice built for a scene (lines 253-263).
SceneDeviceOf(scene, data) ==
    LET roomName == RoomNameOf(data.rooms, scene.roomId)
    IN  [id |-> scene.id,
         type |-> "Scene",
         subType |-> scene.type,
         name |-> Str(roomName) \o " " \o scene.name,
         roomId |-> scene.roomId,
         roomName |-> Str(OrElse(roomName, Some(""))),
         level |-> 0,
         status |-> scene.status,
         position |-> 0,
         currentTemperature |-> Undefined,
         currentMode |-> Undefined,
         currentFanMode |-> Undefined,
         currentSetPoint |-> Undefined,
         temperatureUnits |-> Undefined,
         schedulerState |-> Undefined,
         availableFanModes |-> Undefined,
         availableSystemModes |-> Undefined,
         connectionStatus |-> Undefined,
         lockStatus |-> Undefined,
         lockType |-> Undefined,
         securityCurrentState |-> Undefined,
         securityAvailableStates |-> Undefined]

\* The CrestronDevice built for a record of /doorlocks (lines 274-288).
DoorLockDeviceOf(doorLock, data) ==
    LET roomName == RoomNameOf(data.rooms, doorLock.roomId)
    IN  [id |-> doorLock.id,
         type |-> "DoorLock",
         subType |-> doorLock.type,
         name |-> Str(roomName) \o " " \o doorLock.name,
         roomId |-> doorLock.roomId,
         roomName |-> Str(OrElse(roomName, Some(""))),
         level |-> 0,
         status |-> doorLock.status = "locked",
         position |-> 0,
         currentTemperature |-> Undefined,
         currentMode |-> Undefined,
         currentFanMode |-> Undefined,
         currentSetPoint |-> Undefined,
         temperatureUnits |-> Undefined,
         schedulerState |-> Undefined,
         availableFanModes |-> Undefined,
         availableSystemModes |-> Undefined,
         connectionStatus |-> Some(doorLock.connectionStatus),
         lockStatus |-> Some(doorLock.status),
         lockType |-> Some(doorLock.type),
         securityCurrentState |-> Undefined,
         securityAvailableStates |-> Undefined]

\* The three loops of getDevices, each pushing what the allow-list admits.
PushedDevices(data, enabled) ==
    LET all == [i \in 1..Len(data.devices) |-> DeviceOf(data.devices[i], data)]
    IN  SelectSeq(all, LAMBDA d : IsEnabled(d.type, enabled))

\* A scene loop that pushes every scene, whatever the allow-list holds.
PushedScenesUngated(data, enabled) ==
    [i \in 1..Len(data.scenes) |-> SceneDeviceOf(data.scenes[i], data)]

PushedScenes(data, enabled) ==
    IF "Scene" \in enabled
    THEN [i \in 1..Len(data.scenes) |-> SceneDeviceOf(data.scenes[i], data)]
    ELSE <<>>

\* A door-lock loop that skips the records a record of /devices has joined.
PushedUncorrelatedDoorLocks(data, enabled) ==
    LET joined(dl) ==
            \E k \in 1..Len(data.devices) :
                /\ data.devices[k].id = dl.id
                /\ IsDoorLockType(DeviceType(data.devices[k]))
        alone == SelectSeq(data.doorLocks, LAMBDA dl : ~joined(dl))
    IN  IF "DoorLock" \in enabled
        THEN [i \in 1..Len(alone) |-> DoorLockDeviceOf(alone[i], data)]
        ELSE <<>>

\* A door-lock loop that pushes every door lock, whatever the allow-list holds.
PushedDoorLocksUngated(data, enabled) ==
    [i \in 1..Len(data.doorLocks) |-> DoorLockDeviceOf(data.doorLocks[i], data)]

PushedDoorLocks(data, enabled) ==
    IF "DoorLock" \in enabled
    THEN [i \in 1..Len(data.doorLocks) |-> DoorLockDeviceOf(data.doorLocks[i], data)]
    ELSE <<>>

\* A list that starts with the scenes.
AggregateScenesFirst(data, enabled) ==
    PushedScenes(data, enabled) \o PushedDevices(data, enabled)
        \o PushedDoorLocks(data, enabled)

\* The list getDevices returns when Promise.all resolved with `data`.
AggregateDevices(data, enabled) ==
    PushedDevices(data, enabled) \o PushedScenes(data, enabled)
        \o PushedDoorLocks(data, enabled)

\* A Promise.all in which no read has a .catch().
PromiseAllRejectsOnAny(h) == h.down # {}

\* What Promise.all resolves with (lines 139-147): it rejects when one of the
\* five reads without a .catch() rejects; a rejected /doorlocks or
\* /securitydevices is replaced by an empty collection.
PromiseAllRejects(h) == RequiredEndpoints \cap h.down # {}

CaughtOrEmpty(h, endpoint, field) == IF endpoint \in h.down THEN <<>> ELSE h[field]

ResolvedData(h) ==
    [rooms |-> h.rooms, scenes |-> h.scenes, devices |-> h.devices,
     shades |-> h.shades, thermostats |-> h.thermostats,
     doorLocks |-> CaughtOrEmpty(h, "doorlocks", "doorLocks"),
     securityDevices |-> CaughtOrEmpty(h, "securitydevices", "securityDevices")]

(***************************************************************************)
(* The state.                                                              *)
(***************************************************************************)
VARIABLES
    now,           \* new Date().getTime()
    lastLogin,     \* this.lastLogin
    axiosClient,   \* this.axiosClient: undefined, or the auth key it carries
    rooms,         \* this.rooms
    hub,           \* the controller
    enabledTypes,  \* the allow-list of the configuration
    pc,            \* where each caller stands
    op,            \* the command operation the handler runs
    loginResult,   \* what the awaited login() settled with
    seenLogin,     \* the this.lastLogin an exchanging login() read on entry
    logged,        \* the this.log.error lines of each caller's operation
    crestronData,  \* const crestronData of the running pass
    result,        \* what the caller's operation settled with
    lastSuccess,   \* history: the instant of the last successful exchange
    lastPass,      \* history: how the last finished pass ended
    lastGood,      \* history: the list the last successful pass returned
    writes         \* the write requests the running command operation has issued

\* The thermostat accessory (CrestronHomeThermostat.ts). Temperatures of
\* thermostatStates are held in tenths of a degree Celsius.
VARIABLES
    reading,           \* the temperature the controller reports (deci-Fahrenheit)
    thermostatStates,  \* this.thermostatStates
    sentSetPoint,      \* tempInDeciFahrenheit of the last setTargetTemperature
    requested,         \* history: the value of the last setTargetTemperature
    lastUpdate,        \* history: the device the last updateState was given
    context,           \* accessory.context.device, as the constructor read it
    setpoints,         \* the setpoints of the last setThermostatSetPoint call
    mode               \* the mode of the last setThermostatMode call

thermostatVars ==
    <<reading, thermostatStates, sentSetPoint, requested, lastUpdate, context, setpoints,
      mode>>

\* The security-system accessory (CrestronHomeSecuritySystem.ts lines 10-244).
VARIABLES
    securitySystemStates,  \* this.securitySystemStates
    handler,               \* where setSecuritySystemTargetState stands
    state,                 \* the state of the last setSecuritySystemState call
    securityUpdate         \* history: the device the last updateState was given

securityVars == <<securitySystemStates, handler, state, securityUpdate>>

\* The door-lock accessory (CrestronHomeSecuritySystem.ts lines 255-381).
VARIABLES
    lockStates,        \* this.lockStates
    LockCurrentState,  \* the value last pushed to the LockCurrentState characteristic
    lockCall           \* history: the last call of the accessory and its argument

lockVars == <<lockStates, LockCurrentState, lockCall>>

\* The this.platform.log.warn lines of the accessories.
VARIABLE warned

accessoryVars == <<thermostatVars, securityVars, lockVars, warned>>

\* The state of the client.
clientVars ==
    <<now, lastLogin, axiosClient, rooms, hub, enabledTypes, pc, op, loginResult,
      seenLogin, logged, crestronData, result, lastSuccess, lastPass, lastGood, writes>>

vars ==
    <<now, lastLogin, axiosClient, rooms, hub, enabledTypes, pc, op, loginResult,
      seenLogin, logged, crestronData, result, lastSuccess, lastPass, lastGood,
      writes, accessoryVars>>

(***************************************************************************)
(* The conversions of the thermostat accessory (CrestronHomeThermostat.ts  *)
(* lines 254-266). The controller speaks tenths of a degree Fahrenheit,    *)
(* HomeKit degrees Celsius with one decimal; a Celsius value is held here  *)
(* as its number of tenths, and the quotients are kept exact. A double     *)
(* departs from the exact quotient by less than 1e-12 on these ranges,     *)
(* while no quotient below comes closer than 1/18 to a rounding tie.       *)
(***************************************************************************)
\* Math.round(n / q) for q > 0: the nearest integer, a tie going up.
MathRound(n, q) == (2 * n + q) \div (2 * q)

\* Math.trunc(n / q) for q > 0.
MathTrunc(n, q) == IF n >= 0 THEN n \div q ELSE 0 - ((0 - n) \div q)

\* A conversion that cuts the Celsius value after its first decimal.
deciFahrenheitToCelsiusTruncated(deciFahrenheit) ==
    MathTrunc((deciFahrenheit - 320) * 5, 9)

\* fahrenheit = deciFahrenheit / 10; celsius = (fahrenheit - 32) * 5 / 9;
\* return Math.round(celsius * 10) / 10. In tenths:
\* celsius * 10 = (deciFahrenheit - 320) * 5 / 9.
deciFahrenheitToCelsius(deciFahrenheit) ==
    MathRound((deciFahrenheit - 320) * 5, 9)

\* A conversion that rounds to whole degrees Fahrenheit.
celsiusToWholeFahrenheit(celsius) ==
    10 * MathRound(celsius * 9 + 1600, 50)

\* fahrenheit = (celsius * 9 / 5) + 32; return Math.round(fahrenheit * 10).
\* With celsius in tenths: fahrenheit * 10 = (celsius * 9 + 1600) / 5.
celsiusToDeciFahrenheit(celsius) ==
    MathRound(celsius * 9 + 1600, 5)

\* String.prototype.toLowerCase on the set point types and the lock statuses
\* a controller reports.
ToLowerCase(s) ==
    CASE s \in {"Cool", "COOL", "cool"} -> "cool"
      [] s \in {"Heat", "HEAT", "heat"} -> "heat"
      [] s \in {"Auto", "AUTO", "auto"} -> "auto"
      [] s \in {"Locked", "LOCKED", "locked"} -> "locked"
      [] s \in {"Unlocked", "UNLOCKED", "unlocked"} -> "unlocked"
      [] s \in {"Jammed", "JAMMED", "jammed"} -> "jammed"
      [] OTHER -> s

\* currentSetPoint.find(sp => sp.type.toLowerCase() === t)?.temperature, and 0
\* for undefined (both are falsy where the result is used).
SetPointTemperature(setPoints, t) ==
    LET I == {i \in 1..Len(setPoints) : ToLowerCase(setPoints[i].type) = t}
    IN  IF I = {} THEN 0 ELSE setPoints[Min(I)].temperature

\* const targetTemp = coolSetPoint?.temperature || heatSetPoint?.temperature
TargetTemp(setPoints) ==
    IF SetPointTemperature(setPoints, "cool") # 0
    THEN SetPointTemperature(setPoints, "cool")
    ELSE SetPointTemperature(setPoints, "heat")

\* The values of Characteristic.CurrentHeatingCoolingState and
\* Characteristic.TargetHeatingCoolingState; the current state has no AUTO.
OFF == 0
HEAT == 1
COOL == 2
AUTO == 3

\* String.prototype.toUpperCase on the modes a controller reports; a string
\* that is none of these spellings does not become one of the four names.
ToUpperCase(s) ==
    CASE s \in {"Off", "OFF", "off"} -> "OFF"
      [] s \in {"Heat", "HEAT", "heat"} -> "HEAT"
      [] s \in {"Cool", "COOL", "cool"} -> "COOL"
      [] s \in {"Auto", "AUTO", "auto"} -> "AUTO"
      [] s = "Dry" -> "DRY"
      [] s \in {"Disarmed", "DISARMED", "disarmed"} -> "DISARMED"
      [] s \in {"ArmStay", "ARMSTAY", "armstay"} -> "ARMSTAY"
      [] s \in {"ArmAway", "ARMAWAY", "armaway"} -> "ARMAWAY"
      [] s \in {"ArmInstant", "ARMINSTANT", "arminstant"} -> "ARMINSTANT"
      [] s \in {"Alarm", "ALARM", "alarm"} -> "ALARM"
      [] s \in {"Fire", "FIRE", "fire"} -> "FIRE"
      [] s \in {"EntryDelay", "ENTRYDELAY", "entrydelay"} -> "ENTRYDELAY"
      [] s \in {"ExitDelay", "EXITDELAY", "exitdelay"} -> "EXITDELAY"
      [] s = "Bypass" -> "BYPASS"
      [] OTHER -> s

\* crestronModeToHomeKit(mode, isCurrentState) (lines 271-291).
crestronModeToHomeKit(wireMode, isCurrentState) ==
    CASE ToUpperCase(wireMode) = "OFF" -> OFF
      [] ToUpperCase(wireMode) = "HEAT" -> HEAT
      [] ToUpperCase(wireMode) = "COOL" -> COOL
      [] ToUpperCase(wireMode) = "AUTO" -> IF isCurrentState THEN OFF ELSE AUTO
      [] OTHER -> OFF

\* The log.warn lines of crestronModeToHomeKit: its default branch (lines
\* 288-289) returns OFF and logs nothing.
ModeWarnings(wireMode) == {}

\* homeKitModeToCrestron(homekitMode) (lines 296-308).
homeKitModeToCrestron(homekitMode) ==
    CASE homekitMode = HEAT -> "HEAT"
      [] homekitMode = COOL -> "COOL"
      [] homekitMode = AUTO -> "AUTO"
      [] OTHER -> "OFF"

\* A device without thermostat data: in a device record a missing
\* currentTemperature is 0, a missing currentSetPoint the empty list and a
\* missing currentMode '' (each is falsy where the constructor reads it).
NoThermostatData == [currentTemperature |-> 0, currentSetPoint |-> <<>>, currentMode |-> ""]

\* this.thermostatStates as the constructor leaves it (lines 43-58).
ThermostatStatesOf(device) ==
    [CurrentTemperature |->
         deciFahrenheitToCelsius(
             IF device.currentTemperature # 0 THEN device.currentTemperature ELSE 720),
     TargetTemperature |->
         deciFahrenheitToCelsius(
             IF TargetTemp(device.currentSetPoint) # 0
             THEN TargetTemp(device.currentSetPoint) ELSE 720),
     CurrentHeatingCoolingState |->
         crestronModeToHomeKit(
             IF device.currentMode # "" THEN device.currentMode ELSE "Off", TRUE),
     TargetHeatingCoolingState |->
         crestronModeToHomeKit(
             IF device.currentMode # "" THEN device.currentMode ELSE "Off", FALSE)]

\* The accessory as its constructor leaves it for the device of its context.
ConstructedFrom(device) ==
    /\ context = device
    /\ thermostatStates = ThermostatStatesOf(device)
    /\ sentSetPoint = Undefined
    /\ requested = Undefined
    /\ lastUpdate = Undefined
    /\ setpoints = <<>>
    /\ mode = Undefined

\* The accessory as its constructor leaves it when the cached device carries
\* no thermostat data: both temperatures are deciFahrenheitToCelsius(720).
ConstructedThermostat == ConstructedFrom(NoThermostatData)

\* The thermostat of the specifications that are not about it.
InitThermostat ==
    /\ ConstructedThermostat
    /\ reading = 720

(***************************************************************************)
(* The security-system accessory (CrestronHomeSecuritySystem.ts lines      *)
(* 10-244).                                                                *)
(***************************************************************************)
\* The values of Characteristic.SecuritySystemCurrentState (lines 158-162);
\* Characteristic.SecuritySystemTargetState has the first four, and names the
\* fourth DISARM.
STAY_ARM == 0
AWAY_ARM == 1
NIGHT_ARM == 2
DISARMED == 3
ALARM_TRIGGERED == 4

\* A translation that takes the two delays for a disarmed system.
crestronStateToHomeKitDelaysDisarmed(crestronState) ==
    CASE ToUpperCase(crestronState) = "ARMSTAY" -> STAY_ARM
      [] ToUpperCase(crestronState) = "ARMAWAY" -> AWAY_ARM
      [] ToUpperCase(crestronState) = "ARMINSTANT" -> NIGHT_ARM
      [] ToUpperCase(crestronState) \in {"ALARM", "FIRE"} -> ALARM_TRIGGERED
      [] OTHER -> DISARMED

\* crestronStateToHomeKit(crestronState) (lines 166-197).
crestronStateToHomeKit(crestronState) ==
    CASE ToUpperCase(crestronState) = "DISARMED" -> DISARMED
      [] ToUpperCase(crestronState) = "ARMSTAY" -> STAY_ARM
      [] ToUpperCase(crestronState) = "ARMAWAY" -> AWAY_ARM
      [] ToUpperCase(crestronState) = "ARMINSTANT" -> NIGHT_ARM
      [] ToUpperCase(crestronState) \in {"ALARM", "FIRE"} -> ALARM_TRIGGERED
      [] ToUpperCase(crestronState) \in {"ENTRYDELAY", "EXITDELAY"} -> AWAY_ARM
      [] OTHER -> DISARMED

\* The log.warn line of crestronStateToHomeKit: its default branch (line 194).
StateWarnings(crestronState) ==
    IF ToUpperCase(crestronState) \in
           {"DISARMED", "ARMSTAY", "ARMAWAY", "ARMINSTANT", "ALARM", "FIRE",
            "ENTRYDELAY", "EXITDELAY"}
    THEN {}
    ELSE {"Unknown Crestron security state"}

\* homeKitStateToCrestron(homeKitState) (lines 203-216).
homeKitStateToCrestron(homeKitState) ==
    CASE homeKitState = DISARMED -> "Disarmed"
      [] homeKitState = STAY_ARM -> "ArmStay"
      [] homeKitState = AWAY_ARM -> "ArmAway"
      [] homeKitState = NIGHT_ARM -> "ArmInstant"
      [] OTHER -> "Disarmed"

\* `if (s)` on an optional string: undefined and '' are falsy.
Truthy(o) == o # Undefined /\ o # Some("")

\* connectionStatus === 'online' ? 0 : 1
FaultOf(connectionStatus) == IF connectionStatus = "online" THEN 0 ELSE 1

\* A device without security data.
NoSecurityData == [securityCurrentState |-> Undefined, connectionStatus |-> Undefined]

\* this.securitySystemStates as the constructor leaves it (lines 13-18, 41-53).
SecuritySystemStatesOf(device) ==
    LET current ==
            IF Truthy(device.securityCurrentState)
            THEN crestronStateToHomeKit(device.securityCurrentState[1])
            ELSE 3
    IN  [SecuritySystemCurrentState |-> current,
         SecuritySystemTargetState |-> current,
         SecuritySystemAlarmType |-> 0,
         StatusFault |->
             IF Truthy(device.connectionStatus)
             THEN FaultOf(device.connectionStatus[1]) ELSE 0]

\* The warnings of the constructor: those of its crestronStateToHomeKit.
ConstructorWarnings(device) ==
    IF Truthy(device.securityCurrentState)
    THEN StateWarnings(device.securityCurrentState[1]) ELSE {}

\* The accessory as its constructor leaves it for the device of its context.
ConstructedSecuritySystem(device) ==
    /\ securitySystemStates = SecuritySystemStatesOf(device)
    /\ handler = "idle"
    /\ securityUpdate = Undefined
    /\ state = Undefined
    /\ warned = ConstructorWarnings(device)

\* A catch that leaves the target state as the handler set it.
HandlerCatchKeepsTarget(states) == states

\* The catch of setSecuritySystemTargetState (lines 237-241): the target state
\* goes back to the current state.
HandlerCatch(states) ==
    [states EXCEPT !.SecuritySystemTargetState = states.SecuritySystemCurrentState]

(***************************************************************************)
(* The door-lock accessory (CrestronHomeSecuritySystem.ts lines 255-381).  *)
(***************************************************************************)
\* The values of Characteristic.LockCurrentState; Characteristic.LockTargetState
\* has the first two.
UNSECURED == 0
SECURED == 1
JAMMED == 2
UNKNOWN == 3

\* crestronStatusToHomeKit(crestronStatus) (lines 368-380).
crestronStatusToHomeKit(crestronStatus) ==
    CASE ToLowerCase(crestronStatus) = "locked" -> SECURED
      [] ToLowerCase(crestronStatus) = "unlocked" -> UNSECURED
      [] ToLowerCase(crestronStatus) = "jammed" -> JAMMED
      [] OTHER -> UNKNOWN

\* current === LockCurrentState.SECURED ? LockTargetState.SECURED : UNSECURED
TargetOf(current) == IF current = SECURED THEN SECURED ELSE UNSECURED

\* this.lockStates as the constructor leaves it (lines 285-291).
LockStatesOf(device) ==
    LET current ==
            crestronStatusToHomeKit(
                IF Truthy(device.lockStatus) THEN device.lockStatus[1] ELSE "unknown")
    IN  [LockCurrentState |-> current, LockTargetState |-> TargetOf(current)]

\* The accessory as its constructor leaves it: nothing has been pushed.
ConstructedDoorLock(device) ==
    /\ lockStates = LockStatesOf(device)
    /\ LockCurrentState = Undefined
    /\ lockCall = Undefined

\* The accessories of the specifications that are not about them.
InitAccessories ==
    /\ InitThermostat
    /\ ConstructedSecuritySystem(NoSecurityData)
    /\ ConstructedDoorLock([lockStatus |-> Undefined])

NoResult == [kind |-> "none", value |-> <<>>]
Returned(v) == [kind |-> "returned", value |-> v]
Threw == [kind |-> "threw", value |-> <<>>]

\* The type tags a configuration enables (README "Available device types").
AllTypes == {"Dimmer", "Shade", "Scene", "Thermostat", "DoorLock", "SecuritySystem"}

\* The commands that race with the pass in the session specification: one whose
\* catch swallows the error and the one whose catch rethrows it.
SessionOps == {"setLightsState", "setSecuritySystemState"}

SessionHubs ==
    {HubWith(DefaultDevices, {}),
     HubWith(DefaultDevices, {"devices"}),
     HubWith(<<>>, {"doorlocks"})}

InitClient ==
    /\ now = 0
    /\ lastLogin = 0 - ELEVEN_MINUTES_MILLIS
    /\ axiosClient = Undefined
    /\ rooms = <<>>
    /\ pc = [p \in Procs |-> "idle"]
    /\ op = "none"
    /\ loginResult = [p \in Procs |-> NoResult]
    /\ seenLogin = [p \in Procs |-> Undefined]
    /\ logged = [p \in Procs |-> {}]
    /\ crestronData = Undefined
    /\ result = [p \in Procs |-> NoResult]
    /\ lastSuccess = Undefined
    /\ lastPass = "none"
    /\ lastGood = Undefined
    /\ writes = 0

Init ==
    /\ InitClient
    /\ InitAccessories
    /\ hub \in SessionHubs
    /\ enabledTypes = AllTypes

(***************************************************************************)
(* login() (lines 486-533).                                                *)
(***************************************************************************)
\* A validity test that still accepts a session of exactly nine minutes.
SessionValidInclusive(t, last) == t - last <= NINE_MINUTES_MILLIS

\* new Date().getTime() - this.lastLogin < this.NINE_MINUTES_MILLIS
SessionValid(t, last) == t - last < NINE_MINUTES_MILLIS

\* What login() settles with when the exchange fails: both catch branches
\* return this.lastLogin.
ExchangeFailure(last) == Returned(Some(last))

\* A failed exchange that stamps the session as if it had been renewed.
SessionStampedOnFailure(last, client, t) == <<t, client>>

\* The state a failed exchange leaves: lastLogin and axiosClient as they were.
SessionAfterFailure(last, client, t) == <<last, client>>

\* The synchronous head of login(), run when caller p starts an operation.
LoginCall(p) ==
    /\ IF SessionValid(now, lastLogin)
       THEN /\ pc' = [pc EXCEPT ![p] = "loggedIn"]
            /\ loginResult' = [loginResult EXCEPT ![p] = Returned(Some(lastLogin))]
            /\ seenLogin' = [seenLogin EXCEPT ![p] = Undefined]
       ELSE /\ pc' = [pc EXCEPT ![p] = "exchange"]
            /\ loginResult' = [loginResult EXCEPT ![p] = NoResult]
            /\ seenLogin' = [seenLogin EXCEPT ![p] = Some(lastLogin)]
    /\ logged' = [logged EXCEPT ![p] = {}]
    /\ UNCHANGED <<lastLogin, axiosClient, lastSuccess>>

\* GET /login answered: a new client and a new timestamp.
LoginOk(p) ==
    /\ pc[p] = "exchange"
    /\ \E key \in AuthKeys : axiosClient' = Some(key)
    /\ lastLogin' = now
    /\ lastSuccess' = Some(now)
    /\ loginResult' = [loginResult EXCEPT ![p] = Returned(Some(now))]
    /\ seenLogin' = [seenLogin EXCEPT ![p] = Undefined]
    /\ pc' = [pc EXCEPT ![p] = "loggedIn"]
    /\ UNCHANGED <<now, rooms, hub, enabledTypes, op, logged, crestronData, result,
                   lastPass, lastGood>>
    /\ UNCHANGED <<writes, accessoryVars>>

\* GET /login failed: the catch logs and returns this.lastLogin.
LoginFail(p) ==
    /\ pc[p] = "exchange"
    /\ lastLogin' = SessionAfterFailure(lastLogin, axiosClient, now)[1]
    /\ axiosClient' = SessionAfterFailure(lastLogin, axiosClient, now)[2]
    /\ loginResult' = [loginResult EXCEPT ![p] = ExchangeFailure(lastLogin')]
    /\ logged' = [logged EXCEPT ![p] = @ \cup {"login"}]
    /\ seenLogin' = [seenLogin EXCEPT ![p] = Undefined]
    /\ pc' = [pc EXCEPT ![p] = "loggedIn"]
    /\ UNCHANGED <<now, rooms, hub, enabledTypes, op, crestronData, result,
                   lastSuccess, lastPass, lastGood>>
    /\ UNCHANGED <<writes, accessoryVars>>

(***************************************************************************)
(* getDevices() (lines 131-305).                                           *)
(***************************************************************************)
\* A catch that logs and rethrows.
GetDevicesCatchRethrows(previous) == [kind |-> "threw", value |-> <<>>]

\* What getDevices settles with from its catch (lines 301-304): the error is
\* logged and an empty array returned, whatever an earlier pass returned.
GetDevicesCatch(previous) == Returned(<<>>)

\* The pass ends in the catch.
PassFails ==
    /\ result' = [result EXCEPT !["poll"] = GetDevicesCatch(lastGood)]
    /\ logged' = [logged EXCEPT !["poll"] = @ \cup {"getDevices"}]
    /\ lastPass' = "failed"
    /\ UNCHANGED <<rooms, crestronData, lastGood>>

\* The platform calls getDevices(enabledTypes); the pass awaits login().
GetDevicesCall ==
    /\ pc["poll"] = "idle"
    /\ result' = [result EXCEPT !["poll"] = NoResult]
    /\ crestronData' = Undefined
    /\ LoginCall("poll")
    /\ UNCHANGED <<now, rooms, hub, enabledTypes, op, lastPass, lastGood>>
    /\ UNCHANGED <<writes, accessoryVars>>

\* login() settled: the seven reads are issued on this.axiosClient. With no
\* client yet (the first exchange failed) this.axiosClient.get is a TypeError,
\* and a rejected login() would be thrown by the await; both land in the catch.
GetDevicesIssue ==
    /\ pc["poll"] = "loggedIn"
    /\ loginResult' = [loginResult EXCEPT !["poll"] = NoResult]
    /\ IF loginResult["poll"].kind = "threw" \/ axiosClient = Undefined
       THEN /\ PassFails
            /\ pc' = [pc EXCEPT !["poll"] = "idle"]
       ELSE /\ pc' = [pc EXCEPT !["poll"] = "fetch"]
            /\ UNCHANGED <<rooms, logged, crestronData, result, lastPass, lastGood>>
    /\ UNCHANGED <<now, lastLogin, axiosClient, hub, enabledTypes, op, seenLogin,
                   lastSuccess>>
    /\ UNCHANGED <<writes, accessoryVars>>

\* Promise.all settled: the catch, or the three loops and the return.
GetDevicesFetched ==
    /\ pc["poll"] = "fetch"
    /\ pc' = [pc EXCEPT !["poll"] = "idle"]
    /\ IF PromiseAllRejects(hub)
       THEN PassFails
       ELSE /\ crestronData' = Some(ResolvedData(hub))
            /\ rooms' = ResolvedData(hub).rooms
            /\ result' = [result EXCEPT !["poll"] =
                   Returned(AggregateDevices(ResolvedData(hub), enabledTypes))]
            /\ lastPass' = "ok"
            /\ lastGood' = Some(AggregateDevices(ResolvedData(hub), enabledTypes))
            /\ UNCHANGED logged
    /\ UNCHANGED <<now, lastLogin, axiosClient, hub, enabledTypes, op, loginResult,
                   seenLogin, lastSuccess>>
    /\ UNCHANGED <<writes, accessoryVars>>

(***************************************************************************)
(* The command operations (lines 337-371, 385-399, 413-484, 547-571).      *)
(***************************************************************************)
\* What an operation settles with when its write fails: the catch logs, and
\* only setSecuritySystemState rethrows.
WriteFailure(o) == IF o \in RethrowingOps THEN Threw ELSE Returned(Undefined)

\* The three operations that end their try with `return response.data`.
ReturningOps == {"recallScene", "lockDoor", "unlockDoor"}

\* What an operation settles with when its write is answered: response.data
\* for these three, undefined for the others.
WriteSuccess(o) ==
    IF o \in ReturningOps THEN Returned(Some("response.data")) ELSE Returned(Undefined)

\* The operation ends in its catch.
CommandFails ==
    /\ result' = [result EXCEPT !["cmd"] = WriteFailure(op)]
    /\ logged' = [logged EXCEPT !["cmd"] = @ \cup {"write"}]

\* A command operation that sends its write again when it has failed.
PcRetryAfterWriteFailure(o) == "loggedIn"

\* Where a command operation stands after the catch of its failed write: it
\* has settled; the catch holds no second this.axiosClient.post.
PcAfterWriteFailure(o) == "idle"

\* A command operation is entered: it awaits login(), and has issued no write.
CommandStart(o) ==
    /\ pc["cmd"] = "idle"
    /\ op' = o
    /\ result' = [result EXCEPT !["cmd"] = NoResult]
    /\ writes' = 0
    /\ LoginCall("cmd")
    /\ UNCHANGED <<now, rooms, hub, enabledTypes, crestronData, lastPass, lastGood>>

\* An accessory handler calls a command operation.
CommandCall(o) ==
    /\ CommandStart(o)
    /\ UNCHANGED accessoryVars

\* The handler that awaits the operation resumes in the step in which the
\* operation settles: setSecuritySystemTargetState (lines 231-242) returns, or
\* its catch runs and rethrows. The other handlers hold no state to mend.
HandlerResumes ==
    /\ IF handler = "awaiting" /\ pc'["cmd"] = "idle"
       THEN IF result'["cmd"].kind = "threw"
            THEN /\ securitySystemStates' = HandlerCatch(securitySystemStates)
                 /\ handler' = "threw"
            ELSE /\ handler' = "returned"
                 /\ UNCHANGED securitySystemStates
       ELSE UNCHANGED <<securitySystemStates, handler>>
    /\ UNCHANGED <<state, securityUpdate, thermostatVars, lockVars, warned>>

\* login() settled: the write is issued on this.axiosClient. The await of
\* login() stands outside the try, this.axiosClient.post inside it.
CommandIssue ==
    /\ pc["cmd"] = "loggedIn"
    /\ loginResult' = [loginResult EXCEPT !["cmd"] = NoResult]
    /\ IF loginResult["cmd"].kind = "threw"
       THEN /\ result' = [result EXCEPT !["cmd"] = Threw]
            /\ pc' = [pc EXCEPT !["cmd"] = "idle"]
            /\ UNCHANGED <<logged, writes>>
       ELSE IF axiosClient = Undefined
            THEN /\ CommandFails
                 /\ pc' = [pc EXCEPT !["cmd"] = "idle"]
                 /\ UNCHANGED writes
            ELSE /\ pc' = [pc EXCEPT !["cmd"] = "write"]
                 /\ writes' = writes + 1
                 /\ UNCHANGED <<result, logged>>
    /\ UNCHANGED <<now, lastLogin, axiosClient, rooms, hub, enabledTypes, op,
                   seenLogin, crestronData, lastSuccess, lastPass, lastGood>>
    /\ HandlerResumes

\* The write was answered.
CommandWriteOk ==
    /\ pc["cmd"] = "write"
    /\ pc' = [pc EXCEPT !["cmd"] = "idle"]
    /\ result' = [result EXCEPT !["cmd"] = WriteSuccess(op)]
    /\ UNCHANGED <<now, lastLogin, axiosClient, rooms, hub, enabledTypes, op,
                   loginResult, seenLogin, logged, crestronData, lastSuccess,
                   lastPass, lastGood>>
    /\ UNCHANGED writes
    /\ HandlerResumes

\* The write failed.
CommandWriteFail ==
    /\ pc["cmd"] = "write"
    /\ pc' = [pc EXCEPT !["cmd"] = PcAfterWriteFailure(op)]
    /\ CommandFails
    /\ UNCHANGED <<now, lastLogin, axiosClient, rooms, hub, enabledTypes, op,
                   loginResult, seenLogin, crestronData, lastSuccess, lastPass,
                   lastGood>>
    /\ UNCHANGED writes
    /\ HandlerResumes

(***************************************************************************)
(* The environment.                                                        *)
(***************************************************************************)
\* Time passes.
Tick ==
    /\ \E t \in Instants : t > now /\ now' = t
    /\ UNCHANGED <<lastLogin, axiosClient, rooms, hub, enabledTypes, pc, op,
                   loginResult, seenLogin, logged, crestronData, result, lastSuccess,
                   lastPass, lastGood>>
    /\ UNCHANGED <<writes, accessoryVars>>

\* The controller changes: devices come and go, endpoints fail and recover.
HubChange ==
    /\ \E h \in SessionHubs : h # hub /\ hub' = h
    /\ UNCHANGED <<now, lastLogin, axiosClient, rooms, enabledTypes, pc, op,
                   loginResult, seenLogin, logged, crestronData, result, lastSuccess,
                   lastPass, lastGood>>
    /\ UNCHANGED <<writes, accessoryVars>>

Next ==
    \/ GetDevicesCall
    \/ GetDevicesIssue
    \/ GetDevicesFetched
    \/ \E o \in SessionOps : CommandCall(o)
    \/ CommandIssue
    \/ CommandWriteOk
    \/ CommandWriteFail
    \/ \E p \in Procs : LoginOk(p)
    \/ \E p \in Procs : LoginFail(p)
    \/ Tick
    \/ HubChange

Spec == Init /\ [][Next]_vars

(***************************************************************************)
(* The discovery pass alone: one caller, a controller and an allow-list    *)
(* fixed at the start, every pattern of failing endpoints.                 *)
(***************************************************************************)
OptionalEndpoints == Endpoints \ RequiredEndpoints

\* Every set of failing endpoints for the one-dimmer controller, and every
\* device list for the controllers whose five required endpoints answer.
PassHubs ==
    {HubWith(DefaultDevices, down) : down \in SUBSET Endpoints}
        \cup {HubWith(devs, down) : devs \in DeviceLists, down \in SUBSET OptionalEndpoints}

PassAllowLists ==
    {{}, {"Thermostat"}, {"Dimmer", "Shade", "Scene"}, {"DoorLock", "SecuritySystem"},
     AllTypes}

InitPass ==
    /\ InitClient
    /\ InitAccessories
    /\ hub \in PassHubs
    /\ enabledTypes \in PassAllowLists

NextPass ==
    \/ GetDevicesCall
    \/ GetDevicesIssue
    \/ GetDevicesFetched
    \/ LoginOk("poll")
    \/ LoginFail("poll")

SpecPass == InitPass /\ [][NextPass]_vars

(***************************************************************************)
(* The aggregation alone: every endpoint answers, and the controller holds *)
(* several scenes, thermostats and door locks, in either order.            *)
(***************************************************************************)
\* The scenes, thermostats and door locks of a controller.
AggregateCollections ==
    {[scenes |-> <<Scene1, Scene2>>, thermostats |-> <<Thermostat1>>,
      doorLocks |-> <<DoorLock1, DoorLock2>>],
     [scenes |-> <<Scene2, Scene1>>, thermostats |-> <<Thermostat2>>,
      doorLocks |-> <<DoorLock2, DoorLock1>>],
     [scenes |-> <<>>, thermostats |-> <<>>, doorLocks |-> <<>>]}

AggregateHubs ==
    {[HubWith(devs, {}) EXCEPT !.scenes = c.scenes, !.thermostats = c.thermostats,
                               !.doorLocks = c.doorLocks] :
         devs \in DeviceLists, c \in AggregateCollections}

AggregateAllowLists ==
    {AllTypes, {"Scene", "Thermostat"}, {"Dimmer", "DoorLock", "SecuritySystem"}}

InitAggregate ==
    /\ InitClient
    /\ InitAccessories
    /\ hub \in AggregateHubs
    /\ enabledTypes \in AggregateAllowLists

SpecAggregate == InitAggregate /\ [][NextPass]_vars

(***************************************************************************)
(* The nine command operations, next to the discovery pass: one controller *)
(* whose endpoints answer, and a session that has not expired once it is   *)
(* there.                                                                  *)
(***************************************************************************)
InitCommand ==
    /\ InitClient
    /\ InitAccessories
    /\ hub = HubWith(DefaultDevices, {})
    /\ enabledTypes = AllTypes

NextCommand ==
    \/ \E o \in CommandOps : CommandCall(o)
    \/ CommandIssue
    \/ CommandWriteOk
    \/ CommandWriteFail
    \/ GetDevicesCall
    \/ GetDevicesIssue
    \/ GetDevicesFetched
    \/ \E p \in Procs : LoginOk(p)
    \/ \E p \in Procs : LoginFail(p)

SpecCommand == InitCommand /\ [][NextCommand]_vars

(***************************************************************************)
(* The thermostat accessory (CrestronHomeThermostat.ts): the refresh hands *)
(* it the device the controller reports, HomeKit sets its target.          *)
(***************************************************************************)
\* The range HomeKit accepts as target: minValue 10, maxValue 30, minStep 0.5
\* (lines 97-103), in tenths of a degree.
TargetRange == {c \in (10 * 10)..(30 * 10) : c % 5 = 0}

\* The deci-Fahrenheit values a controller reports.
DeciFahrenheitRange == (0 - 400)..2000

\* The controller has answered the setThermostatSetPoint of the last
\* setTargetTemperature: it holds the set point the accessory sent.
SetPointWritten ==
    /\ sentSetPoint # Undefined
    /\ op = "setThermostatSetPoint"
    /\ pc["cmd"] = "idle"
    /\ result["cmd"].kind = "returned"
    /\ "write" \notin logged["cmd"]

\* updateState(device) (lines 106-141). In a device record a missing
\* currentSetPoint is the empty list and a missing currentMode ''.
updateState(device) ==
    /\ lastUpdate' = Some(device)
    /\ thermostatStates' =
           [CurrentTemperature |-> deciFahrenheitToCelsius(device.currentTemperature),
            TargetTemperature |->
                IF Len(device.currentSetPoint) > 0 /\ TargetTemp(device.currentSetPoint) # 0
                THEN deciFahrenheitToCelsius(TargetTemp(device.currentSetPoint))
                ELSE thermostatStates.TargetTemperature,
            CurrentHeatingCoolingState |->
                IF device.currentMode # ""
                THEN crestronModeToHomeKit(device.currentMode, TRUE)
                ELSE thermostatStates.CurrentHeatingCoolingState,
            TargetHeatingCoolingState |->
                IF device.currentMode # ""
                THEN crestronModeToHomeKit(device.currentMode, FALSE)
                ELSE thermostatStates.TargetHeatingCoolingState]
    /\ warned' =
           warned \cup (IF device.currentMode # "" THEN ModeWarnings(device.currentMode) ELSE {})
    /\ UNCHANGED <<reading, sentSetPoint, requested, context, setpoints, mode>>
    /\ UNCHANGED <<clientVars, securityVars, lockVars>>

\* updateState for the device of a refresh: it carries the temperature the
\* controller reports and either no set point or the set point the accessory
\* has written.
UpdateState ==
    \E setPoints \in
           IF SetPointWritten
           THEN {<<>>, <<[type |-> "Cool", temperature |-> sentSetPoint[1]]>>}
           ELSE {<<>>} :
        updateState([currentTemperature |-> reading, currentSetPoint |-> setPoints,
                     currentMode |-> ""])

\* A set point type that does not follow the mode.
SetPointTypeCool(currentMode) == "Cool"

\* let setPointType = 'Cool'; if (currentMode === HEAT) ... (lines 170-175)
SetPointType(currentMode) ==
    IF currentMode = HEAT THEN "Heat" ELSE IF currentMode = AUTO THEN "Auto" ELSE "Cool"

\* setTargetTemperature(value) (lines 162-186) up to its await: the state is
\* set, the value converted, and setThermostatSetPoint called with it.
SetTargetTemperature(value) ==
    /\ thermostatStates' = [thermostatStates EXCEPT !.TargetTemperature = value]
    /\ sentSetPoint' = Some(celsiusToDeciFahrenheit(value))
    /\ setpoints' =
           <<[type |-> SetPointType(thermostatStates.TargetHeatingCoolingState),
              temperature |-> celsiusToDeciFahrenheit(value)]>>
    /\ requested' = Some(value)
    /\ CommandStart("setThermostatSetPoint")
    /\ UNCHANGED <<reading, lastUpdate, context, mode>>
    /\ UNCHANGED <<securityVars, lockVars, warned>>

\* setTargetHeatingCoolingState(value) (lines 215-227) up to its await.
SetTargetHeatingCoolingState(value) ==
    /\ thermostatStates' = [thermostatStates EXCEPT !.TargetHeatingCoolingState = value]
    /\ mode' = Some(homeKitModeToCrestron(value))
    /\ CommandStart("setThermostatMode")
    /\ UNCHANGED <<reading, sentSetPoint, requested, lastUpdate, context, setpoints>>
    /\ UNCHANGED <<securityVars, lockVars, warned>>

\* The refreshes of a thermostat whose controller reports any temperature.
InitReading ==
    /\ InitClient
    /\ ConstructedThermostat
    /\ ConstructedSecuritySystem(NoSecurityData)
    /\ ConstructedDoorLock([lockStatus |-> Undefined])
    /\ reading \in DeciFahrenheitRange
    /\ hub = HubWith(DefaultDevices, {})
    /\ enabledTypes = AllTypes

NextReading == UpdateState

SpecReading == InitReading /\ [][NextReading]_vars

\* HomeKit sets targets, the set point is written and comes back with a
\* refresh.
NextTarget ==
    \/ \E value \in TargetRange : SetTargetTemperature(value)
    \/ CommandIssue
    \/ CommandWriteOk
    \/ CommandWriteFail
    \/ LoginOk("cmd")
    \/ LoginFail("cmd")
    \/ UpdateState

SpecTarget == InitCommand /\ [][NextTarget]_vars

(***************************************************************************)
(* Properties.                                                             *)
(***************************************************************************)
\* Caller p starts an operation in this step, and with it login().
Calls(p) == pc[p] = "idle" /\ pc'[p] # "idle"

\* The exchange of caller p fails in this step.
ExchangeFails(p) == pc[p] = "exchange" /\ "login" \in logged'[p]

\* The pass has settled.
PassDone == pc["poll"] = "idle" /\ result["poll"].kind # "none"

\* The pass has settled after its seven reads were issued: with a client, the
\* reads are issued as soon as login() has settled.
ReadsAnswered == PassDone /\ axiosClient # Undefined

\* The devices of the settled pass.
Devices == result["poll"].value

\* A returned device built from a record of /doorlocks: its type is "DoorLock"
\* and its subType the kind of the lock, where a record of /devices has its
\* resolved type in both.
IsSynthesized(d) == d.type = "DoorLock" /\ d.subType # "DoorLock"

\* C1: with the last successful login at instant T, a login() called before
\* T + 9 minutes returns without an exchange and leaves the session (timestamp
\* and client) unchanged; a login() called at T + 9 minutes or later starts
\* the exchange GET /login.
SessionReusedUntilNineMinutes ==
    [][\A p \in Procs :
          (Calls(p) /\ lastSuccess # Undefined) =>
              IF now < lastSuccess[1] + 9 * 60 * 1000
              THEN /\ pc'[p] = "loggedIn"
                   /\ loginResult'[p] = Returned(lastSuccess)
                   /\ lastLogin' = lastLogin
                   /\ axiosClient' = axiosClient
              ELSE pc'[p] = "exchange"]_vars

\* Witness of C1: exactly nine minutes after the last successful login the pass
\* has started an exchange, while the command that called login() earlier
\* holds the timestamp of that login.
RenewalAtNineMinutes ==
    /\ lastSuccess # Undefined
    /\ now = lastSuccess[1] + 9 * 60 * 1000
    /\ pc["poll"] = "exchange"
    /\ seenLogin["poll"] = lastSuccess
    /\ pc["cmd"] = "loggedIn"
    /\ loginResult["cmd"] = Returned(lastSuccess)

\* C2: when the exchange fails, login() returns (it does not throw) the
\* previous timestamp, the timestamp and the client stay as they were, and the
\* session the call found expired is still expired, so that a login() called
\* on an expired session starts the exchange again.
FailedExchangeKeepsSession ==
    [][\A p \in Procs :
          /\ ExchangeFails(p) =>
                 /\ pc'[p] = "loggedIn"
                 /\ loginResult'[p] = Returned(Some(lastLogin))
                 /\ lastLogin' = lastLogin
                 /\ axiosClient' = axiosClient
                 /\ seenLogin[p] = Some(lastLogin) =>
                        now' - lastLogin' >= 9 * 60 * 1000
          /\ (Calls(p) /\ now - lastLogin >= 9 * 60 * 1000) =>
                 pc'[p] = "exchange"]_vars

\* Witness of C2: the exchange of the command failed with a session in place,
\* that session is the one login() returned, and the pass, calling login() on
\* it, is exchanging again.
ExchangeRetriedAfterFailure ==
    /\ pc["cmd"] = "loggedIn"
    /\ "login" \in logged["cmd"]
    /\ axiosClient # Undefined
    /\ loginResult["cmd"] = Returned(Some(lastLogin))
    /\ pc["poll"] = "exchange"
    /\ seenLogin["poll"] = Some(lastLogin)

\* C3: renewal is single-writer: at most one credential exchange is in flight
\* at any time.
SingleExchangeInFlight == Cardinality({p \in Procs : pc[p] = "exchange"}) <= 1

\* The controller as it would be had its failing optional endpoints answered
\* with an empty list.
WithEmptyOptional(h) ==
    [h EXCEPT !.doorLocks = IF "doorlocks" \in h.down THEN <<>> ELSE @,
              !.securityDevices = IF "securitydevices" \in h.down THEN <<>> ELSE @,
              !.down = h.down \ {"doorlocks", "securitydevices"}]

\* C4: when only /doorlocks or /securitydevices fail, the pass succeeds, no
\* device comes from the failed collection, and the list is the one the pass
\* returns when that collection is the empty list.
OptionalFailureIsEmptyCollection ==
    (/\ ReadsAnswered
     /\ hub.down # {}
     /\ hub.down \subseteq {"doorlocks", "securitydevices"}) =>
        /\ lastPass = "ok"
        /\ result["poll"] =
               Returned(AggregateDevices(ResolvedData(WithEmptyOptional(hub)), enabledTypes))
        /\ "doorlocks" \in hub.down =>
               \A i \in 1..Len(Devices) :
                   ~IsSynthesized(Devices[i]) /\ Devices[i].lockStatus = Undefined
        /\ "securitydevices" \in hub.down =>
               \A i \in 1..Len(Devices) : Devices[i].securityCurrentState = Undefined

\* Witness of C4: /doorlocks fails, door locks are allowed and the controller
\* lists a lock; the pass has returned the devices of the other collections.
PassWithoutDoorLocks ==
    /\ ReadsAnswered
    /\ hub.down = {"doorlocks"}
    /\ "DoorLock" \in enabledTypes
    /\ \E j \in 1..Len(hub.devices) : hub.devices[j].type = "lock"
    /\ lastPass = "ok"
    /\ Len(Devices) > 0

\* C5: when one of the five required reads fails, the pass is aborted and the
\* caller of the pass is handed an error (and no device list).
RequiredFailureSurfaced ==
    (/\ ReadsAnswered
     /\ hub.down \cap {"rooms", "scenes", "devices", "shades", "thermostats"} # {}) =>
        result["poll"] = Threw

\* C6: a pass that fails yields the list of the last successful pass.
FailedPassKeepsLastList ==
    (PassDone /\ lastPass = "failed" /\ lastGood # Undefined) =>
        result["poll"] = Returned(lastGood[1])

\* C7: with GET /thermostats not implemented and "Thermostat" not allowed, the
\* pass returns the allowed devices of the other collections.
MissingThermostatsTolerated ==
    (/\ ReadsAnswered
     /\ hub.down = {"thermostats"}
     /\ "Thermostat" \notin enabledTypes) =>
        result["poll"] =
            Returned(AggregateDevices(
                ResolvedData([hub EXCEPT !.thermostats = <<>>, !.down = {}]),
                enabledTypes))

\* C8: getDevices never settles with an exception: once the pass has settled
\* it has returned a list, whatever failed.
GetDevicesNeverThrows ==
    /\ result["poll"].kind # "threw"
    /\ PassDone => result["poll"].kind = "returned"

\* Witness of C8: the first exchange ever failed, no client exists, every
\* endpoint fails, and the pass has returned.
PassReturnedWithoutClient ==
    /\ PassDone
    /\ axiosClient = Undefined
    /\ "login" \in logged["poll"]
    /\ hub.down = Endpoints
    /\ result["poll"].kind = "returned"

\* C9: every returned device has a non-empty type: "Scene" for a scene,
\* "DoorLock" for a record of /doorlocks, and for a record of /devices its
\* subType when it has one, else its type; a record with neither is not
\* returned.
ReturnedTypesNonEmpty ==
    \A i \in 1..Len(Devices) :
        /\ Devices[i].type # ""
        /\ \/ /\ Devices[i].type = "Scene"
              /\ \E j \in 1..Len(hub.scenes) : hub.scenes[j].id = Devices[i].id
           \/ /\ Devices[i].type = "DoorLock"
              /\ \E j \in 1..Len(hub.doorLocks) : hub.doorLocks[j].id = Devices[i].id
           \/ \E j \in 1..Len(hub.devices) :
                  /\ hub.devices[j].id = Devices[i].id
                  /\ Devices[i].type =
                         IF hub.devices[j].subType # ""
                         THEN hub.devices[j].subType ELSE hub.devices[j].type

\* Witness of C9: /devices lists a record without type and subType next to a
\* dimmer, and of the two the pass has returned the dimmer alone.
UntypedRecordLeftOut ==
    /\ ReadsAnswered
    /\ lastPass = "ok"
    /\ Len(hub.devices) = 2
    /\ \E j \in 1..2 : hub.devices[j].type = "" /\ hub.devices[j].subType = ""
    /\ \E j \in 1..2 : hub.devices[j].subType = "Dimmer"
    /\ \E i \in 1..Len(Devices) : Devices[i].type = "Dimmer"
    /\ Cardinality({i \in 1..Len(Devices) : Devices[i].type \notin {"Scene", "DoorLock"}}) = 1

\* C10: with the allow-list ["Thermostat"], a record of /devices of type
\* "thermostat" is returned, and returned with the type "Thermostat".
LowercaseThermostatNormalized ==
    (ReadsAnswered /\ lastPass = "ok" /\ enabledTypes = {"Thermostat"}) =>
        \A j \in 1..Len(hub.devices) :
            (hub.devices[j].type = "thermostat" /\ hub.devices[j].subType = "") =>
                \E i \in 1..Len(Devices) :
                    /\ Devices[i].id = hub.devices[j].id
                    /\ Devices[i].type = "Thermostat"

\* The resolved type of a record of /devices: its subType when it has one,
\* else its type.
Resolved(r) == IF r.subType # "" THEN r.subType ELSE r.type

\* The pass has returned the list it built from the seven answers.
PassReturned == ReadsAnswered /\ lastPass = "ok"

\* The returned list holds the device of record j of /devices, of scene j, of
\* record j of /doorlocks (a device built from /doorlocks has the type
\* "DoorLock" and the record's kind as its subType).
HasDeviceOf(j) ==
    \E i \in 1..Len(Devices) :
        /\ Devices[i].id = hub.devices[j].id
        /\ Devices[i].type = Resolved(hub.devices[j])
        /\ Devices[i].subType = Resolved(hub.devices[j])

HasSceneOf(j) ==
    \E i \in 1..Len(Devices) :
        Devices[i].id = hub.scenes[j].id /\ Devices[i].type = "Scene"

HasDoorLockOf(j) ==
    \E i \in 1..Len(Devices) :
        /\ Devices[i].id = hub.doorLocks[j].id
        /\ Devices[i].type = "DoorLock"
        /\ Devices[i].subType = hub.doorLocks[j].type

\* C11: allow-list gating: a record of /devices is returned if and only if the
\* allow-list holds its resolved type, or "Thermostat" when that type is
\* "thermostat", or "SecuritySystem" when it is "security Device"; a scene is
\* returned iff "Scene" is allowed, a record of /doorlocks iff "DoorLock" is.
AllowListGating ==
    PassReturned =>
        /\ \A j \in 1..Len(hub.devices) :
               HasDeviceOf(j) <=>
                   \/ Resolved(hub.devices[j]) \in enabledTypes
                   \/ /\ Resolved(hub.devices[j]) = "thermostat"
                      /\ "Thermostat" \in enabledTypes
                   \/ /\ Resolved(hub.devices[j]) = "security Device"
                      /\ "SecuritySystem" \in enabledTypes
        /\ \A j \in 1..Len(hub.scenes) : HasSceneOf(j) <=> "Scene" \in enabledTypes
        /\ \A j \in 1..Len(hub.doorLocks) :
               HasDoorLockOf(j) <=> "DoorLock" \in enabledTypes

\* Witness of C11: with the allow-list {Scene, Thermostat} and a controller
\* listing a thermostat, a dimmer, scenes and door locks, the pass has returned
\* the thermostat and the scenes and neither the dimmer nor a door lock.
GatedByAllowList ==
    /\ PassReturned
    /\ enabledTypes = {"Scene", "Thermostat"}
    /\ Len(hub.devices) = 2 /\ Len(hub.scenes) = 2 /\ Len(hub.doorLocks) = 2
    /\ hub.devices[1].type = "thermostat" /\ HasDeviceOf(1)
    /\ hub.devices[2].subType = "Dimmer" /\ ~HasDeviceOf(2)
    /\ HasSceneOf(1) /\ HasSceneOf(2)
    /\ ~HasDoorLockOf(1) /\ ~HasDoorLockOf(2)

\* The raw name of the record a returned device was built from.
RawNameOf(d) ==
    LET from ==
            IF d.type = "Scene" THEN hub.scenes
            ELSE IF d.type = "DoorLock" /\ d.subType # "DoorLock" THEN hub.doorLocks
            ELSE hub.devices
    IN  (CHOOSE r \in {from[j] : j \in 1..Len(from)} : r.id = d.id).name

\* The name of the room with that id in /rooms, and '' when there is none.
RoomNameOrEmpty(roomId) ==
    IF \E j \in 1..Len(hub.rooms) : hub.rooms[j].id = roomId
    THEN (CHOOSE r \in {hub.rooms[j] : j \in 1..Len(hub.rooms)} : r.id = roomId).name
    ELSE ""

\* C12: the name of every returned device is the room name, a space and the
\* raw name, the room name being '' when the record's room id matches no room
\* of /rooms; an unresolved room id does not fail the pass.
DisplayNameIsRoomAndRawName ==
    ReadsAnswered =>
        /\ lastPass = "ok"
        /\ \A i \in 1..Len(Devices) :
               Devices[i].name =
                   RoomNameOrEmpty(Devices[i].roomId) \o " " \o RawNameOf(Devices[i])

\* The records of a collection with the id of a returned device.
WithId(seq, id) == {r \in {seq[j] : j \in 1..Len(seq)} : r.id = id}

\* The record of /thermostats a returned device of a climate type joins, and the
\* record of /doorlocks a returned device of a lock type joins or was built from.
ThermostatRecordsOf(d) ==
    IF d.type \in {"Thermostat", "thermostat"} THEN WithId(hub.thermostats, d.id) ELSE {}

DoorLockRecordsOf(d) ==
    IF d.type \in {"DoorLock", "lock"} THEN WithId(hub.doorLocks, d.id) ELSE {}

\* The eight fields only a thermostat record fills.
ClimateOnlyFields ==
    {"currentTemperature", "currentMode", "currentFanMode", "currentSetPoint",
     "temperatureUnits", "schedulerState", "availableFanModes", "availableSystemModes"}

\* C13 as stated: a returned device of a climate type carries the nine climate
\* fields (the eight above and connectionStatus) of the thermostat record with
\* its id, unchanged; with no such record, and on every device of another
\* type, the nine fields are absent.
NineClimateFieldsOnlyFromThermostat ==
    PassReturned =>
        \A i \in 1..Len(Devices) :
            \A f \in ClimateOnlyFields \cup {"connectionStatus"} :
                IF ThermostatRecordsOf(Devices[i]) = {}
                THEN Devices[i][f] = Undefined
                ELSE \E th \in ThermostatRecordsOf(Devices[i]) : Devices[i][f] = Some(th[f])

\* C13, amended: the eight climate-only fields are those of the thermostat
\* record with the device's id, unchanged, and absent without such a record and
\* on every device of a non-climate type. connectionStatus is shared with door
\* locks: it is the thermostat record's when that is non-empty, the door-lock
\* record's on a device of a lock type that has one, and absent otherwise.
ClimateFieldsFollowThermostatRecord ==
    PassReturned =>
        \A i \in 1..Len(Devices) :
            /\ \A f \in ClimateOnlyFields :
                   IF ThermostatRecordsOf(Devices[i]) = {}
                   THEN Devices[i][f] = Undefined
                   ELSE \E th \in ThermostatRecordsOf(Devices[i]) :
                            Devices[i][f] = Some(th[f])
            /\ Devices[i].connectionStatus =
                   IF \E th \in ThermostatRecordsOf(Devices[i]) : th.connectionStatus # ""
                   THEN Some((CHOOSE th \in ThermostatRecordsOf(Devices[i]) : TRUE).connectionStatus)
                   ELSE IF DoorLockRecordsOf(Devices[i]) # {}
                   THEN Some((CHOOSE dl \in DoorLockRecordsOf(Devices[i]) : TRUE).connectionStatus)
                   ELSE Undefined

\* Witness of C13: of two returned thermostats one has a record in /thermostats
\* and carries its temperature and set points, the other has none and carries
\* no climate field; a returned door lock carries a connection status.
ThermostatJoinedAndUnjoined ==
    /\ PassReturned
    /\ Len(hub.devices) = 2
    /\ hub.devices[1].type = "thermostat" /\ hub.devices[2].type = "thermostat"
    /\ hub.thermostats = <<Thermostat1>>
    /\ \E i \in 1..Len(Devices) :
           /\ Devices[i].id = 1
           /\ Devices[i].currentTemperature = Some(720)
           /\ Devices[i].currentSetPoint = Some(Thermostat1.currentSetPoint)
           /\ Devices[i].connectionStatus = Some("online")
    /\ \E i \in 1..Len(Devices) :
           /\ Devices[i].id = 2
           /\ Devices[i].type = "thermostat"
           /\ \A f \in ClimateOnlyFields : Devices[i][f] = Undefined
    /\ \E i \in 1..Len(Devices) :
           Devices[i].type = "DoorLock" /\ Devices[i].connectionStatus # Undefined

\* C14: a returned device of the security type carries the fields of the
\* record of /securitydevices with its id: the current state, the available
\* states and the connection status.
SecurityFieldsFollowSecurityRecord ==
    PassReturned =>
        \A i \in 1..Len(Devices) :
            Devices[i].type = "security Device" =>
                \A sd \in WithId(hub.securityDevices, Devices[i].id) :
                    /\ Devices[i].securityCurrentState = Some(sd.currentState)
                    /\ Devices[i].securityAvailableStates = Some(sd.availableStates)
                    /\ Devices[i].connectionStatus = Some(sd.connectionStatus)

\* Record j of /doorlocks correlates to a record of /devices: one of a lock type
\* has its id, and joined it (lines 190-192).
Correlates(j) ==
    \E k \in 1..Len(hub.devices) :
        /\ hub.devices[k].id = hub.doorLocks[j].id
        /\ Resolved(hub.devices[k]) \in {"DoorLock", "lock"}

\* The devices of type "DoorLock" built from record j of /doorlocks, with the
\* fields the door-lock loop gives them.
SynthesizedFrom(j) ==
    {i \in 1..Len(Devices) :
        /\ Devices[i].type = "DoorLock"
        /\ Devices[i].id = hub.doorLocks[j].id
        /\ Devices[i].subType = hub.doorLocks[j].type
        /\ Devices[i].status = (hub.doorLocks[j].status = "locked")
        /\ Devices[i].lockStatus = Some(hub.doorLocks[j].status)
        /\ Devices[i].lockType = Some(hub.doorLocks[j].type)
        /\ Devices[i].connectionStatus = Some(hub.doorLocks[j].connectionStatus)}

\* C15 as stated: with "DoorLock" allowed, a device of type "DoorLock" is
\* synthesized for each record of /doorlocks that did not correlate to a record
\* of /devices, and only for those records.
SynthesizedOnlyForUncorrelated ==
    (PassReturned /\ "DoorLock" \in enabledTypes) =>
        \A j \in 1..Len(hub.doorLocks) : SynthesizedFrom(j) # {} <=> ~Correlates(j)

\* C15, amended: with "DoorLock" allowed, exactly one device of type "DoorLock"
\* is synthesized for every record of /doorlocks, whether or not the record
\* correlated to a record of /devices, with status = (lock status is 'locked')
\* and the record's status, kind and connection status; with "DoorLock" not
\* allowed none is.
SynthesizedForEveryDoorLock ==
    PassReturned =>
        \A j \in 1..Len(hub.doorLocks) :
            Cardinality(SynthesizedFrom(j)) = IF "DoorLock" \in enabledTypes THEN 1 ELSE 0

\* Witness of C15: the first record of /devices is a lock with the id of a
\* record of /doorlocks, and the pass has returned a device synthesized from
\* that record, locked, and one from the other record, unlocked.
CorrelatedDoorLockSynthesized ==
    /\ PassReturned
    /\ "DoorLock" \in enabledTypes
    /\ Len(hub.doorLocks) = 2
    /\ \E j \in 1..2 :
           /\ Correlates(j)
           /\ \E i \in SynthesizedFrom(j) : Devices[i].status = TRUE
    /\ \E j \in 1..2 :
           /\ ~Correlates(j)
           /\ \E i \in SynthesizedFrom(j) : Devices[i].status = FALSE

\* The position in a collection of the record with that id (0 when none has it).
PosIn(seq, id) ==
    IF \E j \in 1..Len(seq) : seq[j].id = id
    THEN CHOOSE j \in 1..Len(seq) : seq[j].id = id
    ELSE 0

\* The group and the position in its collection of a returned device.
GroupOf(d) == IF d.type = "Scene" THEN 2 ELSE IF IsSynthesized(d) THEN 3 ELSE 1
SourcePos(d) ==
    IF GroupOf(d) = 2 THEN PosIn(hub.scenes, d.id)
    ELSE IF GroupOf(d) = 3 THEN PosIn(hub.doorLocks, d.id)
    ELSE PosIn(hub.devices, d.id)

\* C16: the returned list holds the devices of /devices in the order of
\* /devices, then the scenes in the order of /scenes, then the devices of
\* /doorlocks in the order of /doorlocks: no device of a later group precedes
\* one of an earlier group, and inside a group the order of the collection is
\* kept.
ResultInCollectionOrder ==
    PassReturned =>
        /\ \A i \in 1..Len(Devices) : SourcePos(Devices[i]) > 0
        /\ \A i1, i2 \in 1..Len(Devices) :
               i1 < i2 =>
                   /\ GroupOf(Devices[i1]) <= GroupOf(Devices[i2])
                   /\ GroupOf(Devices[i1]) = GroupOf(Devices[i2]) =>
                          SourcePos(Devices[i1]) < SourcePos(Devices[i2])

\* Witness of C16: the controller lists scene 102 before scene 101 and door lock
\* 2 before door lock 1, and the pass has returned the two records of /devices,
\* then the scenes, then the door locks, each group as its collection lists it.
ThreeGroupsInOrder ==
    /\ PassReturned
    /\ Len(Devices) = 6
    /\ [i \in 1..6 |-> Devices[i].id] = <<1, 2, 102, 101, 2, 1>>
    /\ [i \in 1..6 |-> GroupOf(Devices[i])] = <<1, 1, 2, 2, 3, 3>>

\* The command operation has settled.
CommandDone == pc["cmd"] = "idle" /\ result["cmd"].kind # "none"

\* C17 as stated: every call of a command operation issues exactly one write
\* request.
OneWritePerCall == CommandDone => writes = 1

\* C17, amended: a command operation issues its write in the step in which its
\* login() has settled and in no other step, so never a second time after a
\* failure; it issues one write when the client has a session object (some
\* exchange has succeeded, be the session expired or not) and none when no
\* exchange has ever succeeded, in which case it settles at once. Its write is
\* issued whatever the discovery pass is doing, and no step of a command moves
\* the pass or issues its reads.
OneWriteAfterLoginNoRefresh ==
    [][/\ (pc["cmd"] = "loggedIn" /\ pc'["cmd"] # "loggedIn") =>
              /\ writes = 0
              /\ writes' = IF axiosClient = Undefined THEN 0 ELSE 1
              /\ axiosClient = Undefined => pc'["cmd"] = "idle"
       /\ (pc["cmd"] # "loggedIn" /\ ~Calls("cmd")) => writes' = writes
       /\ Calls("cmd") => writes' = 0 /\ pc'["cmd"] \in {"exchange", "loggedIn"}
       /\ pc'["cmd"] = "write" => pc["cmd"] \in {"loggedIn", "write"}
       /\ pc["cmd"] = "loggedIn" => ENABLED CommandIssue
       /\ pc'["cmd"] # pc["cmd"] =>
              /\ pc'["poll"] = pc["poll"]
              /\ crestronData' = crestronData
              /\ result'["poll"] = result["poll"]]_vars

\* Witness of C17: lockDoor was called while the pass awaited its seven reads,
\* its write failed, and it has settled after one write with the pass still
\* waiting.
CommandSettledDuringPass ==
    /\ CommandDone
    /\ op = "lockDoor"
    /\ "write" \in logged["cmd"]
    /\ writes = 1
    /\ pc["poll"] = "fetch"

\* C18: a failed write is surfaced to the caller of the command: the operation
\* whose write failed throws, or at least does not settle with what it settles
\* with when its write is answered.
FailedWriteSurfaced ==
    (CommandDone /\ "write" \in logged["cmd"]) =>
        \/ result["cmd"].kind = "threw"
        \/ result["cmd"] # WriteSuccess(op)

\* |x| on the integers.
Abs(x) == IF x < 0 THEN 0 - x ELSE x

\* C19: for every deci-Fahrenheit d in [-400, 2000], the temperature the
\* accessory holds after a refresh that reported d is, in tenths of a degree
\* Celsius, the nearest integer to (d - 320) * 5 / 9: it departs from that
\* quotient by at most one half.
ReadingRoundedToNearestTenth ==
    lastUpdate # Undefined =>
        LET d == lastUpdate[1].currentTemperature
            r == thermostatStates.CurrentTemperature
        IN  /\ d \in (0 - 400)..2000
            /\ 2 * Abs(9 * r - 5 * (d - 320)) <= 9

\* Witness of C19: the controller reported 0 (0.0 F, -17.78 C), and the
\* accessory holds -17.8 C.
FreezingReadingRounded ==
    /\ lastUpdate # Undefined
    /\ lastUpdate[1].currentTemperature = 0
    /\ thermostatStates.CurrentTemperature = 0 - 178

\* The last refresh brought back the set point of the last setTargetTemperature.
SetPointCameBack ==
    /\ SetPointWritten
    /\ requested # Undefined
    /\ lastUpdate # Undefined
    /\ lastUpdate[1].currentSetPoint =
           <<[type |-> "Cool", temperature |-> sentSetPoint[1]]>>

\* C20: round trip: for every target c in [10, 30] in steps of 0.5, once the set
\* point written for c has come back with a refresh, the target the accessory
\* holds is c or departs from c by at most 0.1.
TargetRoundTripWithinOneTenth ==
    SetPointCameBack =>
        /\ requested[1] \in {c \in 100..300 : c % 5 = 0}
        /\ Abs(thermostatStates.TargetTemperature - requested[1]) <= 1

\* Witness of C20: HomeKit set 12.5 C, 545 was written (54.5 F) and has come
\* back with a refresh, and the accessory holds 12.5 C.
TargetCameBack ==
    /\ SetPointCameBack
    /\ requested = Some(125)
    /\ sentSetPoint = Some(545)
    /\ lastUpdate[1].currentSetPoint[1].temperature = 545
    /\ thermostatStates.TargetTemperature = 125


(***************************************************************************)
(* The thermostat accessory with its modes: it is constructed from the     *)
(* device of its context, the refresh hands it the devices a controller    *)
(* reports, and HomeKit sets its target temperature and its target mode.   *)
(***************************************************************************)
\* A device of the thermostat with a list of set points and a mode.
ThermostatDevice(setPoints, wireMode) ==
    [currentTemperature |-> 720, currentSetPoint |-> setPoints, currentMode |-> wireMode]

\* The devices a refresh hands over: a cooling set point, a heating one, both
\* in either order, a cooling set point of 0, no set point, and one that is
\* neither; the four modes in several spellings, no mode, and an unknown one.
ThermostatDevices ==
    {ThermostatDevice(<<[type |-> "Cool", temperature |-> 700]>>, "Cool"),
     ThermostatDevice(<<[type |-> "Heat", temperature |-> 680]>>, "HEAT"),
     ThermostatDevice(<<[type |-> "Heat", temperature |-> 680],
                        [type |-> "cool", temperature |-> 700]>>, "auto"),
     ThermostatDevice(<<[type |-> "Cool", temperature |-> 0],
                        [type |-> "Heat", temperature |-> 680]>>, "Off"),
     ThermostatDevice(<<>>, ""),
     ThermostatDevice(<<[type |-> "Auto", temperature |-> 710]>>, "Dry")}

\* The devices an accessory is constructed from: one without thermostat data,
\* and three with set points.
ThermostatContexts ==
    {NoThermostatData,
     ThermostatDevice(<<[type |-> "Heat", temperature |-> 680]>>, "HEAT"),
     ThermostatDevice(<<[type |-> "Heat", temperature |-> 680],
                        [type |-> "cool", temperature |-> 700]>>, "auto"),
     ThermostatDevice(<<[type |-> "Cool", temperature |-> 0],
                        [type |-> "Heat", temperature |-> 680]>>, "Off")}

\* The targets HomeKit sets: both ends of the range and a value between.
TargetSamples == {10 * 10, 215, 30 * 10}

InitThermostatAccessory ==
    /\ InitClient
    /\ \E device \in ThermostatContexts : ConstructedFrom(device)
    /\ reading = 720
    /\ ConstructedSecuritySystem(NoSecurityData)
    /\ ConstructedDoorLock([lockStatus |-> Undefined])
    /\ hub = HubWith(DefaultDevices, {})
    /\ enabledTypes = AllTypes

NextThermostat ==
    \/ \E device \in ThermostatDevices : updateState(device)
    \/ \E value \in TargetSamples : SetTargetTemperature(value)
    \/ \E value \in {OFF, HEAT, COOL, AUTO} : SetTargetHeatingCoolingState(value)
    \/ CommandIssue
    \/ CommandWriteOk
    \/ CommandWriteFail
    \/ LoginOk("cmd")
    \/ LoginFail("cmd")

SpecThermostat == InitThermostatAccessory /\ [][NextThermostat]_vars

\* This step is an updateState of the thermostat accessory.
ThermostatUpdated == \E device \in ThermostatDevices : updateState(device)

\* The list holds a set point of type t, and the temperature of the first one.
HasSetPoint(setPoints, t) ==
    \E i \in 1..Len(setPoints) : ToLowerCase(setPoints[i].type) = t

FirstSetPoint(setPoints, t) ==
    setPoints[Min({i \in 1..Len(setPoints) : ToLowerCase(setPoints[i].type) = t})].temperature

\* The cooling set point when the list has one, else the heating set point,
\* else `otherwise`.
CoolThenHeat(setPoints, otherwise) ==
    IF HasSetPoint(setPoints, "cool")
    THEN deciFahrenheitToCelsius(FirstSetPoint(setPoints, "cool"))
    ELSE IF HasSetPoint(setPoints, "heat")
         THEN deciFahrenheitToCelsius(FirstSetPoint(setPoints, "heat"))
         ELSE otherwise

\* C21: the target temperature is that of the cooling set point whenever the
\* device has one, else that of the heating set point; with neither it is the
\* default of 720 deci-Fahrenheit at construction, and the target held before
\* on an update.
TargetFromCoolThenHeat ==
    [][/\ ThermostatUpdated =>
              thermostatStates'.TargetTemperature =
                  CoolThenHeat(lastUpdate'[1].currentSetPoint,
                               thermostatStates.TargetTemperature)
       /\ (lastUpdate' = Undefined /\ requested' = Undefined) =>
              thermostatStates'.TargetTemperature =
                  CoolThenHeat(context'.currentSetPoint, deciFahrenheitToCelsius(720))]_vars


\* The mode of the same name as an upper-case wire mode.
ModeNamed(upperMode) ==
    CASE upperMode = "OFF" -> OFF
      [] upperMode = "HEAT" -> HEAT
      [] upperMode = "COOL" -> COOL
      [] upperMode = "AUTO" -> AUTO

\* C22: after an updateState whose device carries a mode, the target mode is
\* the mode of the same name when the wire mode is OFF, HEAT, COOL or AUTO in
\* any letter case, and that mode translates back to the same wire mode; any
\* other wire mode gives OFF, and a warning has been logged.
ModeTableBidirectionalAndWarns ==
    [][(ThermostatUpdated /\ lastUpdate'[1].currentMode # "") =>
           LET upperMode == ToUpperCase(lastUpdate'[1].currentMode)
               target == thermostatStates'.TargetHeatingCoolingState
           IN  IF upperMode \in {"OFF", "HEAT", "COOL", "AUTO"}
               THEN /\ target = ModeNamed(upperMode)
                    /\ homeKitModeToCrestron(target) = upperMode
               ELSE /\ target = OFF
                    /\ warned' # {}]_vars


\* C30: a setTargetTemperature hands setThermostatSetPoint exactly one set
\* point; its type is Heat when the target mode held at the call is HEAT, Auto
\* when it is AUTO and Cool otherwise, OFF included; its temperature is
\* celsiusToDeciFahrenheit of the requested value; the target mode is left as
\* it was.
SetPointKindFollowsTargetMode ==
    [][(Calls("cmd") /\ op' = "setThermostatSetPoint") =>
           LET held == thermostatStates.TargetHeatingCoolingState
           IN  /\ Len(setpoints') = 1
               /\ setpoints'[1].type =
                      (CASE held = HEAT -> "Heat" [] held = AUTO -> "Auto" [] OTHER -> "Cool")
               /\ setpoints'[1].temperature = celsiusToDeciFahrenheit(requested'[1])
               /\ thermostatStates'.TargetTemperature = requested'[1]
               /\ thermostatStates'.TargetHeatingCoolingState = held]_vars

\* A set point of type Heat was sent while the target mode was HEAT.
HeatSetPointSent ==
    /\ thermostatStates.TargetHeatingCoolingState = HEAT
    /\ requested = Some(215)
    /\ setpoints = <<[type |-> "Heat", temperature |-> 707]>>
    /\ op = "setThermostatSetPoint"
    /\ pc["cmd"] = "write"


(***************************************************************************)
(* The security-system accessory: it is constructed from the device of its *)
(* context, the refresh hands it the devices a controller reports, and     *)
(* HomeKit sets its target state.                                          *)
(***************************************************************************)
\* The security states a controller reports: the eight of the API, three of
\* them in another letter case, and two it does not document.
WireStates ==
    {"Disarmed", "ArmStay", "ArmAway", "ArmInstant", "Alarm", "Fire", "EntryDelay",
     "ExitDelay", "ALARM", "fire", "armaway", "Bypass", ""}

\* The devices a refresh hands over: each state without a connection status,
\* a connection status without a state, and both.
SecurityDevices ==
    {[securityCurrentState |-> Some(s), connectionStatus |-> Undefined] : s \in WireStates}
        \cup {[securityCurrentState |-> Undefined, connectionStatus |-> c] :
                  c \in {Undefined, Some("online"), Some("offline")}}
        \cup {[securityCurrentState |-> Some("Fire"), connectionStatus |-> Some("offline")]}

\* The devices an accessory is constructed from.
SecurityContexts ==
    {NoSecurityData,
     [securityCurrentState |-> Some("ArmAway"), connectionStatus |-> Some("online")],
     [securityCurrentState |-> Some("Alarm"), connectionStatus |-> Some("offline")],
     [securityCurrentState |-> Some("Bypass"), connectionStatus |-> Undefined]}

\* updateState(device) of the security-system accessory (lines 73-104).
SecurityUpdateState(device) ==
    LET reported == device.securityCurrentState
        current ==
            IF reported # Undefined
            THEN crestronStateToHomeKit(reported[1])
            ELSE securitySystemStates.SecuritySystemCurrentState
    IN  /\ securitySystemStates' =
               [SecuritySystemCurrentState |-> current,
                SecuritySystemTargetState |->
                    IF reported # Undefined
                    THEN current
                    ELSE securitySystemStates.SecuritySystemTargetState,
                SecuritySystemAlarmType |->
                    IF reported = Some("Alarm") \/ reported = Some("Fire") THEN 1 ELSE 0,
                StatusFault |->
                    IF device.connectionStatus # Undefined
                    THEN FaultOf(device.connectionStatus[1])
                    ELSE securitySystemStates.StatusFault]
        /\ warned' =
               warned \cup (IF reported # Undefined THEN StateWarnings(reported[1]) ELSE {})
        /\ securityUpdate' = Some(device)
        /\ UNCHANGED <<handler, state>>
        /\ UNCHANGED <<clientVars, thermostatVars, lockVars>>

\* setSecuritySystemTargetState(value) (lines 222-243) up to its await; the
\* rest of it runs when setSecuritySystemState settles.
SetSecuritySystemTargetState(value) ==
    /\ securitySystemStates' =
           [securitySystemStates EXCEPT !.SecuritySystemTargetState = value]
    /\ state' = Some(homeKitStateToCrestron(value))
    /\ handler' = "awaiting"
    /\ CommandStart("setSecuritySystemState")
    /\ UNCHANGED <<securityUpdate, warned, thermostatVars, lockVars>>

\* The target states HomeKit sets.
TargetStates == {STAY_ARM, AWAY_ARM, NIGHT_ARM, DISARMED}

InitSecuritySystem ==
    /\ InitClient
    /\ InitThermostat
    /\ \E device \in SecurityContexts : ConstructedSecuritySystem(device)
    /\ ConstructedDoorLock([lockStatus |-> Undefined])
    /\ hub = HubWith(DefaultDevices, {})
    /\ enabledTypes = AllTypes

NextSecuritySystem ==
    \/ \E device \in SecurityDevices : SecurityUpdateState(device)
    \/ \E value \in TargetStates : SetSecuritySystemTargetState(value)
    \/ CommandIssue
    \/ CommandWriteOk
    \/ CommandWriteFail
    \/ LoginOk("cmd")
    \/ LoginFail("cmd")

SpecSecuritySystem == InitSecuritySystem /\ [][NextSecuritySystem]_vars

\* The state the last updateState was given, when it carried one.
ReportedState == securityUpdate[1].securityCurrentState[1]

UpdatedWithState ==
    /\ securityUpdate # Undefined
    /\ securityUpdate[1].securityCurrentState # Undefined

\* The wire state is the one named `name`, in some letter case.
IsState(wireState, name) == ToUpperCase(wireState) = ToUpperCase(name)

\* C23: after an updateState that carries a security state, the current state
\* is Disarmed for Disarmed, StayArmed for ArmStay, AwayArmed for ArmAway,
\* NightArmed for ArmInstant, AlarmTriggered for Alarm and Fire, AwayArmed for
\* EntryDelay and ExitDelay; for any other value it is Disarmed and a warning
\* has been logged; it is always one of the five states.
SecurityStateTable ==
    UpdatedWithState =>
        LET current == securitySystemStates.SecuritySystemCurrentState
        IN  /\ current \in {STAY_ARM, AWAY_ARM, NIGHT_ARM, DISARMED, ALARM_TRIGGERED}
            /\ CASE IsState(ReportedState, "Disarmed") -> current = DISARMED
                 [] IsState(ReportedState, "ArmStay") -> current = STAY_ARM
                 [] IsState(ReportedState, "ArmAway") -> current = AWAY_ARM
                 [] IsState(ReportedState, "ArmInstant") -> current = NIGHT_ARM
                 [] IsState(ReportedState, "Alarm") -> current = ALARM_TRIGGERED
                 [] IsState(ReportedState, "Fire") -> current = ALARM_TRIGGERED
                 [] IsState(ReportedState, "EntryDelay") -> current = AWAY_ARM
                 [] IsState(ReportedState, "ExitDelay") -> current = AWAY_ARM
                 [] OTHER ->
                        /\ current = DISARMED
                        /\ "Unknown Crestron security state" \in warned

\* An exit delay was reported and shows as AwayArmed; no warning was logged.
ExitDelayShownAsAwayArmed ==
    /\ UpdatedWithState
    /\ ReportedState = "ExitDelay"
    /\ securitySystemStates.SecuritySystemCurrentState = AWAY_ARM
    /\ warned = {}


\* C24: the target state the accessory holds is one of the four states that
\* can be commanded; it is never AlarmTriggered.
TargetStateCommandable ==
    securitySystemStates.SecuritySystemTargetState \in
        {STAY_ARM, AWAY_ARM, NIGHT_ARM, DISARMED}

\* C27: once updateState has run, the alarm type is 1 exactly when the current
\* state is AlarmTriggered.
AlarmTypeIffAlarmTriggered ==
    securityUpdate # Undefined =>
        (securitySystemStates.SecuritySystemAlarmType = 1
             <=> securitySystemStates.SecuritySystemCurrentState = ALARM_TRIGGERED)

\* The step in which a setSecuritySystemState called by the handler ends in
\* its catch.
SecurityWriteFails ==
    /\ handler = "awaiting"
    /\ pc["cmd"] # "idle"
    /\ pc'["cmd"] = "idle"
    /\ "write" \in logged'["cmd"]

\* C28: when the write of setSecuritySystemTargetState fails, the handler
\* throws to its caller, the target state becomes the current state, and the
\* current state, the alarm type and the fault status stay as they were.
FailedSecurityWriteResetsTarget ==
    [][SecurityWriteFails =>
           /\ handler' = "threw"
           /\ securitySystemStates'.SecuritySystemTargetState =
                  securitySystemStates.SecuritySystemCurrentState
           /\ securitySystemStates'.SecuritySystemCurrentState =
                  securitySystemStates.SecuritySystemCurrentState
           /\ securitySystemStates'.SecuritySystemAlarmType =
                  securitySystemStates.SecuritySystemAlarmType
           /\ securitySystemStates'.StatusFault = securitySystemStates.StatusFault]_vars

\* An ArmAway sent for a disarmed system failed on the wire: the handler has
\* thrown and the target is Disarmed again.
ArmAwayFailedAndTargetReset ==
    /\ handler = "threw"
    /\ state = Some("ArmAway")
    /\ writes = 1
    /\ "write" \in logged["cmd"]
    /\ securitySystemStates.SecuritySystemCurrentState = DISARMED
    /\ securitySystemStates.SecuritySystemTargetState = DISARMED


(***************************************************************************)
(* The door-lock accessory: it is constructed from the device of its       *)
(* context, the refresh hands it the devices a controller reports, and     *)
(* HomeKit sets its target state.                                          *)
(***************************************************************************)
\* The devices a refresh hands over: the three statuses of the API, one in
\* another letter case, one it does not document, an empty one and none.
LockDevices ==
    {[lockStatus |-> s] :
         s \in {Undefined, Some(""), Some("locked"), Some("unlocked"), Some("jammed"),
                Some("Locked"), Some("ajar")}}

\* getLockCurrentState() (lines 327-330).
getLockCurrentState == lockStates.LockCurrentState

\* updateState(device) of the door-lock accessory (lines 303-322): the states
\* are set when the device carries a status, and both are pushed.
LockUpdateState(device) ==
    /\ lockStates' =
           IF Truthy(device.lockStatus)
           THEN [LockCurrentState |-> crestronStatusToHomeKit(device.lockStatus[1]),
                 LockTargetState |->
                     TargetOf(crestronStatusToHomeKit(device.lockStatus[1]))]
           ELSE lockStates
    /\ LockCurrentState' = Some(lockStates'.LockCurrentState)
    /\ lockCall' = Some([call |-> "updateState", lockStatus |-> device.lockStatus])
    /\ UNCHANGED <<clientVars, thermostatVars, securityVars, warned>>

\* setLockTargetState(value) (lines 343-363) up to its await: the target state
\* is set, a current state pushed to the characteristic, and lockDoor or
\* unlockDoor called.
SetLockTargetState(value) ==
    /\ lockStates' = [lockStates EXCEPT !.LockTargetState = value]
    /\ LockCurrentState' = Some(IF value = SECURED THEN SECURED ELSE UNSECURED)
    /\ lockCall' = Some([call |-> "setLockTargetState", lockStatus |-> Undefined])
    /\ CommandStart(IF value = SECURED THEN "lockDoor" ELSE "unlockDoor")
    /\ UNCHANGED <<thermostatVars, securityVars, warned>>

InitDoorLock ==
    /\ InitClient
    /\ InitThermostat
    /\ ConstructedSecuritySystem(NoSecurityData)
    /\ \E device \in LockDevices : ConstructedDoorLock(device)
    /\ hub = HubWith(DefaultDevices, {})
    /\ enabledTypes = AllTypes

NextDoorLock ==
    \/ \E device \in LockDevices : LockUpdateState(device)
    \/ \E value \in {UNSECURED, SECURED} : SetLockTargetState(value)
    \/ CommandIssue
    \/ CommandWriteOk
    \/ CommandWriteFail
    \/ LoginOk("cmd")
    \/ LoginFail("cmd")

SpecDoorLock == InitDoorLock /\ [][NextDoorLock]_vars

\* C29: once a value has been pushed to the LockCurrentState characteristic,
\* getLockCurrentState returns the value pushed last; and when the last call
\* was an updateState with a non-empty lock status, the target state is
\* Secured exactly when the current state is.
LockCurrentStateIsLastPushed ==
    /\ LockCurrentState # Undefined => getLockCurrentState = LockCurrentState[1]
    /\ (/\ lockCall # Undefined
        /\ lockCall[1].call = "updateState"
        /\ Truthy(lockCall[1].lockStatus)) =>
           (lockStates.LockTargetState = SECURED <=> lockStates.LockCurrentState = SECURED)


(***************************************************************************)
(* The getDevices of the client before door locks and security systems     *)
(* (src/unnamed/part_000 lines 94-186), next to the current one.           *)
(***************************************************************************)
\* What its Promise.all resolves with: the five reads, none with a .catch().
EarlierResolvedData(h) ==
    [rooms |-> h.rooms, scenes |-> h.scenes, devices |-> h.devices,
     shades |-> h.shades, thermostats |-> h.thermostats]

\* The CrestronDevice it builds for a record of /devices (lines 125-144): the
\* thermostat is joined for the type 'Thermostat' only.
EarlierDeviceOf(device, data) ==
    LET roomName == RoomNameOf(data.rooms, device.roomId)
        deviceType == DeviceType(device)
        shade == IF deviceType = "Shade" THEN Find(data.shades, device.id) ELSE Undefined
        shadePosition == IF shade = Undefined THEN 0 ELSE shade[1].position
        thermostatData ==
            IF deviceType = "Thermostat"
            THEN Find(data.thermostats, device.id) ELSE Undefined
    IN  [id |-> device.id,
         type |-> deviceType,
         subType |-> deviceType,
         name |-> Str(roomName) \o " " \o device.name,
         roomId |-> device.roomId,
         roomName |-> Str(OrElse(roomName, Some(""))),
         level |-> device.level,
         status |-> device.status,
         position |-> shadePosition,
         currentTemperature |-> Opt(thermostatData, "currentTemperature"),
         currentMode |-> Opt(thermostatData, "currentMode"),
         currentFanMode |-> Opt(thermostatData, "currentFanMode"),
         currentSetPoint |-> Opt(thermostatData, "currentSetPoint"),
         temperatureUnits |-> Opt(thermostatData, "temperatureUnits"),
         schedulerState |-> Opt(thermostatData, "schedulerState"),
         availableFanModes |-> Opt(thermostatData, "availableFanModes"),
         availableSystemModes |-> Opt(thermostatData, "availableSystemModes"),
         connectionStatus |-> Opt(thermostatData, "connectionStatus")]

\* The CrestronDevice it builds for a scene (lines 155-165).
EarlierSceneDeviceOf(scene, data) ==
    LET roomName == RoomNameOf(data.rooms, scene.roomId)
    IN  [id |-> scene.id,
         type |-> "Scene",
         subType |-> scene.type,
         name |-> Str(roomName) \o " " \o scene.name,
         roomId |-> scene.roomId,
         roomName |-> Str(OrElse(roomName, Some(""))),
         level |-> 0,
         status |-> scene.status,
         position |-> 0,
         currentTemperature |-> Undefined,
         currentMode |-> Undefined,
         currentFanMode |-> Undefined,
         currentSetPoint |-> Undefined,
         temperatureUnits |-> Undefined,
         schedulerState |-> Undefined,
         availableFanModes |-> Undefined,
         availableSystemModes |-> Undefined,
         connectionStatus |-> Undefined]

\* Its two loops (lines 120-170): a device is pushed when the allow-list
\* includes its type, a scene when it includes 'Scene'.
EarlierAggregateDevices(data, enabled) ==
    LET all == [i \in 1..Len(data.devices) |-> EarlierDeviceOf(data.devices[i], data)]
        scenes == [i \in 1..Len(data.scenes) |-> EarlierSceneDeviceOf(data.scenes[i], data)]
    IN  SelectSeq(all, LAMBDA d : d.type \in enabled)
            \o (IF "Scene" \in enabled THEN scenes ELSE <<>>)

\* The type tags of the configurations written for it (README of that version).
EarlierTypes == {"Switch", "Dimmer", "Shade", "Scene"}

\* Controllers whose five required endpoints answer: every device list, with
\* several scenes, thermostats and door locks, and with the two later
\* endpoints answering or not.
CompatibleHubs ==
    AggregateHubs
        \cup {HubWith(devs, down) : devs \in DeviceLists, down \in SUBSET OptionalEndpoints}

\* Allow-lists drawn from these types.
CompatibleAllowLists ==
    {{}, {"Scene"}, {"Shade"}, {"Switch", "Dimmer"}, {"Dimmer", "Scene"}, EarlierTypes}

InitCompatible ==
    /\ InitClient
    /\ InitAccessories
    /\ hub \in CompatibleHubs
    /\ enabledTypes \in CompatibleAllowLists

SpecCompatible == InitCompatible /\ [][NextPass]_vars

\* The fields the two versions share, of each device of a list.
SharedFields(devices) ==
    [i \in 1..Len(devices) |->
         [id |-> devices[i].id, type |-> devices[i].type, subType |-> devices[i].subType,
          name |-> devices[i].name, roomId |-> devices[i].roomId,
          roomName |-> devices[i].roomName, level |-> devices[i].level,
          status |-> devices[i].status, position |-> devices[i].position]]

\* C26: for an allow-list of Switch, Dimmer, Shade and Scene, the list a pass
\* returns has the devices the earlier getDevices returns for the same
\* controller, in the same order, with the same id, type, subType, name, room,
\* level, status and position.
SameDevicesAsEarlierVersion ==
    (PassReturned /\ enabledTypes \subseteq EarlierTypes) =>
        SharedFields(Devices) =
            SharedFields(EarlierAggregateDevices(EarlierResolvedData(hub), enabledTypes))

\* A pass over a controller with a dimmer, a lock and two door locks returned
\* the dimmer and the two scenes, as the earlier version does.
LocksLeftOutAsBefore ==
    /\ PassReturned
    /\ enabledTypes = {"Dimmer", "Scene"}
    /\ Len(hub.devices) = 2
    /\ DeviceType(hub.devices[1]) = "Dimmer"
    /\ DeviceType(hub.devices[2]) = "lock"
    /\ Len(hub.doorLocks) = 2
    /\ Len(Devices) = 3
    /\ SharedFields(Devices) =
           SharedFields(EarlierAggregateDevices(EarlierResolvedData(hub), enabledTypes))


(***************************************************************************)
(* The operations under a controller that may stay silent. A request is    *)
(* axios.get or this.axiosClient.get/post with httpsAgent, baseURL and     *)
(* headers only (crestronClient.ts lines 495-520, 139-147): no timeout, no *)
(* signal, and no timer of the client ends a request. What is sure to      *)
(* happen is what the event loop does on its own: an operation whose       *)
(* login() has settled goes on to issue its request. That a request is     *)
(* answered, or fails, is up to the controller and the network.            *)
(***************************************************************************)
SpecSilent ==
    /\ InitCommand
    /\ [][NextCommand]_vars
    /\ WF_vars(GetDevicesIssue)
    /\ WF_vars(CommandIssue)

\* C25: an operation that has been started eventually completes, whether or
\* not the controller answers its requests.
EveryOperationCompletes ==
    \A p \in Procs : (pc[p] # "idle") ~> (pc[p] = "idle")

====
